---------------------------- MODULE Spec2Model ----------------------------
(***************************************************************************)
(* A model of the TamaTac sprite tools:                                    *)
(*   Tools/sprite_tools/sprite2c.py              PNG -> RGB565 C arrays    *)
(*   Tools/sprite_tools/spritedata2png.py        C arrays -> PNG           *)
(*   Tools/sprite_tools/generate_placeholders.py palette, placeholder text  *)
(*                                                                         *)
(* Values are modelled as follows.                                         *)
(*   - Python None and the empty tuple are the empty sequence << >>.       *)
(*   - A pixel is <<r, g, b, a>>, a colour key is <<r, g, b>>.             *)
(*   - An image is [w, h, px] with px the pixels in row-major order.       *)
(*   - A string is the sequence of its characters, each a 1-character      *)
(*     TLA+ string, so that formatting and the regular expressions are     *)
(*     modelled character by character.                                    *)
(***************************************************************************)
EXTENDS Integers, Sequences, FiniteSets, TLC

VARIABLES
    pc,             \* position of the run being modelled
    \* ---- one pixel through the codec
    pixel,          \* the source pixel <<r, g, b, a>>
    colorKey,       \* transparent_color: << >> (None) or <<r, g, b>>
    paletteVal,     \* rgb565(r, g, b) of generate_placeholders.py
    storedVal,      \* the value convert_sprite appends for the pixel
    shownPixel,     \* the RGBA pixel create_frame_png puts for storedVal
    \* ---- images and frames
    image,          \* the image given to convert_sprite
    frameW,         \* frame_width  / --width
    frameH,         \* frame_height / --height
    cols,           \* cols: << >> (None) or <<n>>
    converted,      \* what convert_sprite(image, ...) did: [status, frames]
    frameList,      \* the frames given to the PNG export
    sheet,          \* the image the PNG export built
    reconverted,    \* what convert_sprite(sheet, ...) did
    \* ---- header text
    doc,            \* the arrays to declare: a sequence of [name, frame_idx, data]
    headerText,     \* the text of the header
    parsed,         \* arrays = parse_sprite_arrays(content): a sequence of [name, value]
    sprites,        \* grouped = group_frames(arrays): a sequence of [name, value]
    individual,     \* --individual
    cursor,         \* the item the export loop is at
    log,            \* the lines printed
    files,          \* the PNG files saved: a sequence of [name, img]
    \* ---- header generation
    tool,           \* the run: "spritedata", "batch" or "placeholders"
    spriteDir,      \* the PNG files of the input directory: a sequence of [name, value]
    configFile,     \* sprite_config.txt: << >> (no file) or <<lines>>
    config,         \* anim_config: a sequence of [name, value], value <<delay, loop>>
    frameCounts,    \* sprite_frame_counts: a sequence of [name, value]
    outLines,       \* lines
    outFiles        \* the text files written: a sequence of [name, value]

rasterVars == <<image, frameW, frameH, cols, converted, frameList, sheet, reconverted>>
codecVars  == <<pixel, colorKey, paletteVal, storedVal, shownPixel>>
textVars   == <<doc, headerText, parsed, sprites, individual, cursor, log, files>>
genVars    == <<tool, spriteDir, configFile, config, frameCounts, outLines, outFiles>>
vars == <<pc, codecVars, rasterVars, textVars, genVars>>

None == << >>

Max(a, b) == IF a >= b THEN a ELSE b
Abs(a) == IF a >= 0 THEN a ELSE 0 - a

(***************************************************************************)
(* Python's integer operators.  Integers are unbounded and a negative one  *)
(* has infinitely many leading one bits: x >> n is the floor of x / 2^n.   *)
(***************************************************************************)
RECURSIVE BitOr(_, _)
BitOr(a, b) ==
    IF a = 0 THEN b
    ELSE IF b = 0 THEN a
    ELSE IF a = -1 \/ b = -1 THEN -1
    ELSE (IF a % 2 = 1 \/ b % 2 = 1 THEN 1 ELSE 0) + 2 * BitOr(a \div 2, b \div 2)

RECURSIVE Pow2(_)
Pow2(n) == IF n = 0 THEN 1 ELSE 2 * Pow2(n - 1)

Shr(a, n) == a \div Pow2(n)
Shl(a, n) == a * Pow2(n)
BitAndMask(a, nbits) == a % Pow2(nbits)

(***************************************************************************)
(* The colour codec.                                                       *)
(***************************************************************************)
TRANSPARENT_RGB565 == 63519      \* 0xF81F
T == 63519                       \* generate_placeholders.py's name for it
FALLBACK_RGB565 == 63518         \* 0xF81E
ALPHA_THRESHOLD == 128

\* sprite2c.py: rgb_to_rgb565
rgb_to_rgb565(r, g, b) ==
    BitOr(BitOr(Shl(Shr(r, 3), 11), Shl(Shr(g, 2), 5)), Shr(b, 3))

\* rgb565 without the check against the transparent value
rgb565_unchecked(r, g, b) ==
    BitOr(BitOr(Shl(Shr(r, 3), 11), Shl(Shr(g, 2), 5)), Shr(b, 3))

\* generate_placeholders.py: rgb565
rgb565(r, g, b) ==
    LET val == BitOr(BitOr(Shl(Shr(r, 3), 11), Shl(Shr(g, 2), 5)), Shr(b, 3))
    IN  IF val = T THEN FALLBACK_RGB565 ELSE val

\* rgb565_to_rgb without the replication of the high bits into the low bits
rgb565_to_rgb_shift_only(val) ==
    <<Shl(BitAndMask(Shr(val, 11), 5), 3),
      Shl(BitAndMask(Shr(val, 5), 6), 2),
      Shl(BitAndMask(val, 5), 3)>>

\* spritedata2png.py: rgb565_to_rgb
rgb565_to_rgb(val) ==
    LET r0 == Shl(BitAndMask(Shr(val, 11), 5), 3)
        g0 == Shl(BitAndMask(Shr(val, 5), 6), 2)
        b0 == Shl(BitAndMask(val, 5), 3)
    IN  <<BitOr(r0, Shr(r0, 5)), BitOr(g0, Shr(g0, 6)), BitOr(b0, Shr(b0, 5))>>

\* The pixel branch with the alpha test skipped when a colour key is given
ConvertPixel_key_instead_of_alpha(px, transparent_color) ==
    LET r == px[1]
        g == px[2]
        b == px[3]
        a == px[4]
    IN  IF transparent_color # None /\ <<r, g, b>> = transparent_color
          THEN TRANSPARENT_RGB565
        ELSE IF transparent_color = None /\ a < ALPHA_THRESHOLD
          THEN TRANSPARENT_RGB565
        ELSE LET val == rgb_to_rgb565(r, g, b)
             IN  IF val = TRANSPARENT_RGB565 THEN FALLBACK_RGB565 ELSE val

\* sprite2c.py: convert_sprite, the value appended for one pixel
ConvertPixel(px, transparent_color) ==
    LET r == px[1]
        g == px[2]
        b == px[3]
        a == px[4]
    IN  IF transparent_color # None /\ <<r, g, b>> = transparent_color
          THEN TRANSPARENT_RGB565
        ELSE IF a < ALPHA_THRESHOLD
          THEN TRANSPARENT_RGB565
        ELSE LET val == rgb_to_rgb565(r, g, b)
             IN  IF val = TRANSPARENT_RGB565 THEN FALLBACK_RGB565 ELSE val

\* The pixel branch with the transparent value decoded like any other
PutPixel_opaque_sentinel(val) ==
    LET c == rgb565_to_rgb(val) IN <<c[1], c[2], c[3], 255>>

\* spritedata2png.py: create_frame_png, the pixel put for one value
PutPixel(val) ==
    IF val = TRANSPARENT_RGB565
      THEN <<0, 0, 0, 0>>
      ELSE LET c == rgb565_to_rgb(val) IN <<c[1], c[2], c[3], 255>>


(***************************************************************************)
(* Images: sprite2c.py's convert_sprite and spritedata2png.py's            *)
(* create_frame_png, create_spritesheet and the export of one sprite.      *)
(***************************************************************************)
TRANSPARENT_PIXEL == <<0, 0, 0, 0>>     \* what Image.new("RGBA", size) holds

\* img.getpixel((x, y))
getpixel(img, x, y) == img.px[y * img.w + x + 1]

\* convert_sprite: the frame at (row, col), pixels in row-major order
ConvertFrame(img, frame_width, frame_height, transparent_color, row, col) ==
    [k \in 1..(frame_width * frame_height) |->
        LET y == (k - 1) \div frame_width
            x == (k - 1) % frame_width
        IN  ConvertPixel(getpixel(img, col * frame_width + x, row * frame_height + y),
                         transparent_color)]

\* The emptiness test requiring both counts to be zero
EmptySheet_both_zero(ncols, rows) == ncols = 0 /\ rows = 0

\* convert_sprite: if cols == 0 or rows == 0, the image is smaller than a frame
EmptySheet(ncols, rows) == ncols = 0 \/ rows = 0

\* convert_sprite with the frames taken column by column
convert_sprite_column_major(img, frame_width, frame_height, transparent_color, c) ==
    LET max_cols == img.w \div frame_width
        ncols    == IF c # None THEN c[1] ELSE max_cols
        rows     == img.h \div frame_height
    IN  IF EmptySheet(ncols, rows)
          THEN [status |-> "exit", frames |-> << >>]
        ELSE IF ncols * frame_width > img.w
          THEN [status |-> "IndexError", frames |-> << >>]
        ELSE [status |-> "ok",
              frames |-> [i \in 1..(rows * ncols) |->
                  ConvertFrame(img, frame_width, frame_height, transparent_color,
                               (i - 1) % rows, (i - 1) \div rows)]]

\* sprite2c.py: convert_sprite.  status "exit" is sys.exit(1) after the error
\* message, "IndexError" is getpixel outside the image (cols too large).
convert_sprite(img, frame_width, frame_height, transparent_color, c) ==
    LET max_cols == img.w \div frame_width
        ncols    == IF c # None THEN c[1] ELSE max_cols
        rows     == img.h \div frame_height
    IN  IF EmptySheet(ncols, rows)
          THEN [status |-> "exit", frames |-> << >>]
        ELSE IF ncols * frame_width > img.w
          THEN [status |-> "IndexError", frames |-> << >>]
        ELSE [status |-> "ok",
              frames |-> [i \in 1..(rows * ncols) |->
                  ConvertFrame(img, frame_width, frame_height, transparent_color,
                               (i - 1) \div ncols, (i - 1) % ncols)]]

\* img.resize((w * scale, h * scale), Image.NEAREST)
Resize(img, scale) ==
    [w |-> img.w * scale, h |-> img.h * scale,
     px |-> [k \in 1..(img.w * scale * img.h * scale) |->
                getpixel(img, ((k - 1) % (img.w * scale)) \div scale,
                              ((k - 1) \div (img.w * scale)) \div scale)]]

\* spritedata2png.py: create_frame_png
create_frame_png(pixels, width, height, scale) ==
    LET img == [w |-> width, h |-> height,
                px |-> [k \in 1..(width * height) |->
                           IF k - 1 >= Len(pixels)
                             THEN TRANSPARENT_PIXEL
                             ELSE PutPixel(pixels[k])]]
    IN  IF scale > 1 THEN Resize(img, scale) ELSE img

\* create_spritesheet that lays the frames out right to left
create_spritesheet_reversed(frame_list, width, height, scale) ==
    LET num_frames  == Len(frame_list)
        sheet_width == width * num_frames
        frame_img   == [i \in 1..num_frames |->
                           create_frame_png(frame_list[i], width, height, 1)]
        pasted == [w |-> sheet_width, h |-> height,
                   px |-> [k \in 1..(sheet_width * height) |->
                      LET X == (k - 1) % sheet_width
                          y == (k - 1) \div sheet_width
                      IN  getpixel(frame_img[num_frames - (X \div width)], X % width, y)]]
    IN  IF scale > 1 THEN Resize(pasted, scale) ELSE pasted

\* spritedata2png.py: create_spritesheet
create_spritesheet(frame_list, width, height, scale) ==
    LET num_frames  == Len(frame_list)
        sheet_width == width * num_frames
        frame_img   == [i \in 1..num_frames |->
                           create_frame_png(frame_list[i], width, height, 1)]
        \* sheet.paste(frame_img, (i * width, 0))
        pasted == [w |-> sheet_width, h |-> height,
                   px |-> [k \in 1..(sheet_width * height) |->
                      LET X == (k - 1) % sheet_width
                          y == (k - 1) \div sheet_width
                      IN  getpixel(frame_img[(X \div width) + 1], X % width, y)]]
    IN  IF scale > 1 THEN Resize(pasted, scale) ELSE pasted

\* The frames main keeps: [f for f in frame_list if len(f) == expected_pixels]
ValidFrames(frame_list, expected_pixels) ==
    SelectSeq(frame_list, LAMBDA f : Len(f) = expected_pixels)

\* spritedata2png.py: main, the image written for one sprite; None when the
\* sprite has no valid frame and is skipped
ExportSprite(frame_list, width, height, scale) ==
    LET valid_frames == ValidFrames(frame_list, width * height)
    IN  IF valid_frames = << >> THEN None
        ELSE IF Len(valid_frames) = 1
          THEN <<create_frame_png(valid_frames[1], width, height, scale)>>
          ELSE <<create_spritesheet(valid_frames, width, height, scale)>>

DEFAULT_SCALE == 1      \* --scale

(***************************************************************************)
(* Text.  A string is the sequence of its characters.                      *)
(***************************************************************************)
DigitChars == {"0", "1", "2", "3", "4", "5", "6", "7", "8", "9"}
UpperHexChars == {"A", "B", "C", "D", "E", "F"}
LowerHexChars == {"a", "b", "c", "d", "e", "f"}
HexChars == DigitChars \cup UpperHexChars \cup LowerHexChars            \* [0-9A-Fa-f]
\* [^\W\d_]: what \w matches besides 0-9 and _.  Text is read as str, so
\* \w, \s, strip() and lower() follow Unicode; the characters here are those
\* of U+0001..U+00FF.
LetterChars ==
    {"a", "b", "c", "d", "e", "f", "g", "h", "i", "j", "k", "l", "m",
     "n", "o", "p", "q", "r", "s", "t", "u", "v", "w", "x", "y", "z",
     "A", "B", "C", "D", "E", "F", "G", "H", "I", "J", "K", "L", "M",
     "N", "O", "P", "Q", "R", "S", "T", "U", "V", "W", "X", "Y", "Z",
     "ª", "²", "³", "µ", "¹", "º", "¼", "½", "¾", "À", "Á", "Â", "Ã",
     "Ä", "Å", "Æ", "Ç", "È", "É", "Ê", "Ë", "Ì", "Í", "Î", "Ï", "Ð",
     "Ñ", "Ò", "Ó", "Ô", "Õ", "Ö", "Ø", "Ù", "Ú", "Û", "Ü", "Ý", "Þ",
     "ß", "à", "á", "â", "ã", "ä", "å", "æ", "ç", "è", "é", "ê", "ë",
     "ì", "í", "î", "ï", "ð", "ñ", "ò", "ó", "ô", "õ", "ö", "ø", "ù",
     "ú", "û", "ü", "ý", "þ", "ÿ"}
WordChars == LetterChars \cup DigitChars \cup {"_"}                     \* \w
\* \s and str.isspace(): TAB LF VT FF CR, U+001C..U+001F, space, U+0085, U+00A0
SpaceChars ==
    {"\t", "\n", "", "\f", "\r", "", "", "", "", " ", "", " "}
\* the blanks int() takes around a literal: not U+001C..U+001F
IntSpaceChars == SpaceChars \ {"", "", "", ""}

HexDigits == <<"0", "1", "2", "3", "4", "5", "6", "7", "8", "9", "A", "B", "C", "D", "E", "F">>

\* the value of one (hexadecimal) digit character
DigitValue(ch) ==
    CASE ch \in DigitChars    -> CHOOSE d \in 0..9 : HexDigits[d + 1] = ch
      [] ch \in UpperHexChars -> CHOOSE d \in 10..15 : HexDigits[d + 1] = ch
      [] ch = "a" -> 10 [] ch = "b" -> 11 [] ch = "c" -> 12
      [] ch = "d" -> 13 [] ch = "e" -> 14 [] ch = "f" -> 15

\* f"{n}" for n >= 0
RECURSIVE DecStr(_)
DecStr(n) == IF n < 10 THEN <<HexDigits[n + 1]>>
             ELSE DecStr(n \div 10) \o <<HexDigits[(n % 10) + 1]>>

\* f"{n:X}" for n >= 0
RECURSIVE HexStr(_)
HexStr(n) == IF n < 16 THEN <<HexDigits[n + 1]>>
             ELSE HexStr(n \div 16) \o <<HexDigits[(n % 16) + 1]>>

RECURSIVE ZeroPad(_, _)
ZeroPad(str, width) == IF Len(str) >= width THEN str ELSE ZeroPad(<<"0">> \o str, width)

\* f"0x{v:4X}": padded with spaces
RECURSIVE SpacePad(_, _)
SpacePad(str, width) == IF Len(str) >= width THEN str ELSE SpacePad(<<" ">> \o str, width)
Hex04_space_padded(v) == <<"0", "x">> \o SpacePad(HexStr(v), 4)

\* f"0x{v:04X}"
Hex04(v) == <<"0", "x">> \o ZeroPad(HexStr(v), 4)

\* int(str, base) of a non-empty string of digits
RECURSIVE ParseInt(_, _)
ParseInt(str, base) ==
    IF Len(str) = 0 THEN 0
    ELSE ParseInt(SubSeq(str, 1, Len(str) - 1), base) * base + DigitValue(str[Len(str)])

\* sep.join(parts)
RECURSIVE Join(_, _)
Join(sep, parts) ==
    IF Len(parts) = 0 THEN << >>
    ELSE IF Len(parts) = 1 THEN parts[1]
    ELSE LET half == Len(parts) \div 2
         IN  Join(sep, SubSeq(parts, 1, half)) \o sep
                 \o Join(sep, SubSeq(parts, half + 1, Len(parts)))

\* data[row_start:row_start + width] for row_start in range(0, len(data), width)
RECURSIVE Rows(_, _)
Rows(data, width) ==
    IF Len(data) = 0 THEN << >>
    ELSE IF Len(data) <= width THEN <<data>>
    ELSE <<SubSeq(data, 1, width)>> \o Rows(SubSeq(data, width + 1, Len(data)), width)

ArrayName(name, frame_idx) ==
    <<"s", "p", "r", "i", "t", "e", "_">> \o name \o <<"_", "f", "r", "a", "m", "e">> \o DecStr(frame_idx)

\* sprite2c.py: format_array
format_array(name, frame_idx, data, width) ==
    LET first == <<"c", "o", "n", "s", "t", "e", "x", "p", "r", " ", "u", "i", "n", "t", "1", "6", "_", "t", " ">> \o ArrayName(name, frame_idx)
                     \o <<"[">> \o DecStr(Len(data)) \o <<"]", " ", "=", " ", "{">>
        rows  == Rows(data, width)
        body  == [i \in 1..Len(rows) |->
                    <<" ", " ", " ", " ">> \o Join(<<",", " ">>, [j \in 1..Len(rows[i]) |-> Hex04(rows[i][j])])
                        \o <<",">>]
    IN  Join(<<"\n">>, <<first>> \o body \o <<<<"}", ";">>>>)

(***************************************************************************)
(* spritedata2png.py: the two regular expressions of parse_sprite_arrays   *)
(* and the one of group_frames, matched character by character.  A         *)
(* position is an index into the text; 0 stands for "no match".            *)
(***************************************************************************)
\* the position after the literal `lit` at position i, or 0
Lit(str, i, lit) ==
    IF i # 0 /\ i + Len(lit) - 1 <= Len(str) /\ SubSeq(str, i, i + Len(lit) - 1) = lit
      THEN i + Len(lit) ELSE 0

\* the position after the longest run of characters of `class` from i
RECURSIVE SkipIn(_, _, _)
SkipIn(str, i, class) ==
    IF i <= Len(str) /\ str[i] \in class THEN SkipIn(str, i + 1, class) ELSE i

\* the position after the longest run of characters other than ch from i
RECURSIVE SkipTo(_, _, _)
SkipTo(str, i, ch) ==
    IF i <= Len(str) /\ str[i] # ch THEN SkipTo(str, i + 1, ch) ELSE i

\* class* and class+ at position i
Star(str, i, class) == IF i = 0 THEN 0 ELSE SkipIn(str, i, class)
Plus(str, i, class) == IF i = 0 \/ SkipIn(str, i, class) = i THEN 0 ELSE SkipIn(str, i, class)

\* constexpr\s+uint16_t\s+(sprite_\w+)\s*\[\d+\]\s*=\s*\{([^}]+)\}\s*;
\* at position i: [end, name, data], end = 0 when there is no match
MatchArray(str, i) ==
    LET p1  == Plus(str, Lit(str, i, <<"c", "o", "n", "s", "t", "e", "x", "p", "r">>), SpaceChars)
        p2  == Plus(str, Lit(str, p1, <<"u", "i", "n", "t", "1", "6", "_", "t">>), SpaceChars)
        p3  == Plus(str, Lit(str, p2, <<"s", "p", "r", "i", "t", "e", "_">>), WordChars)
        p4  == Lit(str, Star(str, p3, SpaceChars), <<"[">>)
        p5  == Lit(str, Plus(str, p4, DigitChars), <<"]">>)
        p6  == Lit(str, Star(str, p5, SpaceChars), <<"=">>)
        p7  == Lit(str, Star(str, p6, SpaceChars), <<"{">>)
        p8  == IF p7 = 0 \/ SkipTo(str, p7, "}") = p7 THEN 0 ELSE SkipTo(str, p7, "}")
        p9  == Lit(str, p8, <<"}">>)
        p10 == Lit(str, Star(str, p9, SpaceChars), <<";">>)
    IN  IF p10 = 0
          THEN [end |-> 0, name |-> << >>, data |-> << >>]
          ELSE [end |-> p10, name |-> SubSeq(str, p2, p3 - 1), data |-> SubSeq(str, p7, p8 - 1)]

\* the values read with the pattern 0x([0-9A-F]+): upper case digits only
RECURSIVE HexValues_upper_only(_, _)
HexValues_upper_only(str, i) ==
    IF i > Len(str) THEN << >>
    ELSE LET q == Plus(str, Lit(str, i, <<"0", "x">>), DigitChars \cup UpperHexChars)
         IN  IF q = 0 THEN HexValues_upper_only(str, i + 1)
             ELSE <<ParseInt(SubSeq(str, i + 2, q - 1), 16)>> \o HexValues_upper_only(str, q)

\* [int(h.group(1), 16) for h in re.finditer(r'0x([0-9A-Fa-f]+)', data_str)]
RECURSIVE HexValues(_, _)
HexValues(str, i) ==
    IF i > Len(str) THEN << >>
    ELSE LET q == Plus(str, Lit(str, i, <<"0", "x">>), HexChars)
         IN  IF q = 0 THEN HexValues(str, i + 1)
             ELSE <<ParseInt(SubSeq(str, i + 2, q - 1), 16)>> \o HexValues(str, q)

\* ordered[key] = value on an OrderedDict kept as a sequence of [name, value]
RECURSIVE DictSet(_, _, _)
DictSet(ordered, key, value) ==
    IF Len(ordered) = 0 THEN <<[name |-> key, value |-> value]>>
    ELSE IF ordered[1].name = key
      THEN <<[name |-> key, value |-> value]>> \o Tail(ordered)
      ELSE <<ordered[1]>> \o DictSet(Tail(ordered), key, value)

RECURSIVE ScanArrays(_, _, _)
ScanArrays(str, i, arrays) ==
    IF i > Len(str) THEN arrays
    ELSE LET m == MatchArray(str, i)
         IN  IF m.end = 0 THEN ScanArrays(str, i + 1, arrays)
             ELSE ScanArrays(str, m.end, DictSet(arrays, m.name, HexValues(m.data, 1)))

\* spritedata2png.py: parse_sprite_arrays
parse_sprite_arrays(header_text) == ScanArrays(header_text, 1, << >>)

\* ^sprite_(.+)_frame(\d+)$ on an array name (of word characters):
\* the positions where _frame starts with digits only after it
FrameSplits(array_name) ==
    { p \in 9..(Len(array_name) - 6) :
        /\ SubSeq(array_name, p, p + 5) = <<"_", "f", "r", "a", "m", "e">>
        /\ \A q \in (p + 6)..Len(array_name) : array_name[q] \in DigitChars }

FrameMatch(array_name) ==
    IF Lit(array_name, 1, <<"s", "p", "r", "i", "t", "e", "_">>) = 0 \/ FrameSplits(array_name) = {}
      THEN [ok |-> FALSE, sprite_name |-> << >>, frame_idx |-> 0]
      ELSE LET p == CHOOSE x \in FrameSplits(array_name) :
                        \A z \in FrameSplits(array_name) : z <= x
           IN  [ok |-> TRUE,
                sprite_name |-> SubSeq(array_name, 8, p - 1),
                frame_idx |-> ParseInt(SubSeq(array_name, p + 6, Len(array_name)), 10)]

DictHas(ordered, key) == \E i \in 1..Len(ordered) : ordered[i].name = key
DictGet(ordered, key) == ordered[CHOOSE i \in 1..Len(ordered) : ordered[i].name = key].value

\* frames.append(pixels): the frames in the order of the text
PlaceFrame_append(frames, frame_idx, pixels) == Append(frames, <<pixels>>)

\* while len(frames) <= frame_idx: frames.append(None); frames[frame_idx] = pixels
\* A slot is << >> (None) or <<pixels>>.
PlaceFrame(frames, frame_idx, pixels) ==
    [i \in 1..Max(Len(frames), frame_idx + 1) |->
        IF i = frame_idx + 1 THEN <<pixels>>
        ELSE IF i <= Len(frames) THEN frames[i] ELSE None]

\* the loop of group_frames over arrays.items()
RECURSIVE PlaceArrays(_, _, _)
PlaceArrays(arrays, i, grouped) ==
    IF i > Len(arrays) THEN grouped
    ELSE LET m == FrameMatch(arrays[i].name)
         IN  IF ~m.ok THEN PlaceArrays(arrays, i + 1, grouped)
             ELSE LET soFar == IF DictHas(grouped, m.sprite_name)
                                 THEN DictGet(grouped, m.sprite_name) ELSE << >>
                  IN  PlaceArrays(arrays, i + 1,
                         DictSet(grouped, m.sprite_name,
                                 PlaceFrame(soFar, m.frame_idx, arrays[i].value)))

\* [f for f in frames if f is not None]
DropNone(frames) ==
    LET kept == SelectSeq(frames, LAMBDA f : f # None)
    IN  [i \in 1..Len(kept) |-> kept[i][1]]

\* spritedata2png.py: group_frames
group_frames(arrays) ==
    LET grouped == PlaceArrays(arrays, 1, << >>)
    IN  [i \in 1..Len(grouped) |->
            [name |-> grouped[i].name, value |-> DropNone(grouped[i].value)]]

(***************************************************************************)
(* CodecSpec: one pixel through rgb565, through convert_sprite's pixel     *)
(* branch and back through create_frame_png's pixel branch.                *)
(***************************************************************************)
\* Component values next to the quantisation steps and the ends of the range.
ComponentSamples == {0, 3, 4, 7, 248, 255}
Components == 0..255

\* Every component value of one channel against the samples of the other two.
SweptColors ==
    (Components \X ComponentSamples \X ComponentSamples)
        \cup (ComponentSamples \X Components \X ComponentSamples)
        \cup (ComponentSamples \X ComponentSamples \X Components)

AlphaSamples == {0, 127, 128, 255}
MAGENTA == <<255, 0, 255>>
ColorKeys == {None, MAGENTA}

IdleText ==
    /\ doc = None /\ headerText = None /\ parsed = None /\ sprites = None
    /\ individual = FALSE /\ cursor = 0 /\ log = None /\ files = None

IdleGen ==
    /\ tool = None /\ spriteDir = None /\ configFile = None /\ config = None
    /\ frameCounts = None /\ outLines = None /\ outFiles = None

IdleRaster0 ==
    /\ image = None /\ cols = None
    /\ converted = None /\ frameList = None /\ sheet = None /\ reconverted = None

IdleRaster == IdleRaster0 /\ frameW = 0 /\ frameH = 0

CodecInit ==
    /\ pc = "pixel"
    /\ \E c \in SweptColors, a \in AlphaSamples : pixel = <<c[1], c[2], c[3], a>>
    /\ colorKey \in ColorKeys
    /\ paletteVal = None /\ storedVal = None /\ shownPixel = None
    /\ IdleRaster /\ IdleText /\ IdleGen

\* generate_placeholders.py: a palette entry, NAME = rgb565(r, g, b)
PaletteEntry ==
    /\ pc = "pixel"
    /\ paletteVal' = <<rgb565(pixel[1], pixel[2], pixel[3])>>
    /\ pc' = "palette"
    /\ UNCHANGED <<pixel, colorKey, storedVal, shownPixel, rasterVars, textVars, genVars>>

\* sprite2c.py: convert_sprite on the pixel
StorePixel ==
    /\ pc = "palette"
    /\ storedVal' = <<ConvertPixel(pixel, colorKey)>>
    /\ pc' = "stored"
    /\ UNCHANGED <<pixel, colorKey, paletteVal, shownPixel, rasterVars, textVars, genVars>>

\* spritedata2png.py: create_frame_png on the stored value
ShowPixel ==
    /\ pc = "stored"
    /\ shownPixel' = <<PutPixel(storedVal[1])>>
    /\ pc' = "shown"
    /\ UNCHANGED <<pixel, colorKey, paletteVal, storedVal, rasterVars, textVars, genVars>>

CodecNext == PaletteEntry \/ StorePixel \/ ShowPixel

CodecSpec == CodecInit /\ [][CodecNext]_vars

\* The pixel is one convert_sprite encodes: not the colour key, alpha >= 128.
IsOpaque(px, key) ==
    /\ ~(key # None /\ <<px[1], px[2], px[3]>> = key)
    /\ px[4] >= ALPHA_THRESHOLD


\* The colour truncates to the bits of the transparent value.
QuantisesToSentinel(px) == px[1] >= 248 /\ px[2] <= 3 /\ px[3] >= 248

(***************************************************************************)
(* C1: for every (r, g, b) in 0..255, rgb565 never yields the transparent  *)
(* value 0xF81F, and neither does convert_sprite for a pixel it encodes    *)
(* (alpha >= 128, not the colour key).                                     *)
(***************************************************************************)
C1_NeverSentinel ==
    /\ paletteVal # None => paletteVal[1] # T
    /\ (storedVal # None /\ IsOpaque(pixel, colorKey))
          => storedVal[1] # TRANSPARENT_RGB565

\* An opaque magenta-like pixel has been stored, as the fallback value.
C1_Witness ==
    /\ pc = "stored"
    /\ QuantisesToSentinel(pixel) /\ IsOpaque(pixel, colorKey)
    /\ paletteVal = <<FALLBACK_RGB565>>
    /\ storedVal = <<FALLBACK_RGB565>>

(***************************************************************************)
(* C2: the colour decoded from the stored value of an encoded pixel.       *)
(***************************************************************************)
RedError   == Abs(shownPixel[1][1] - pixel[1])
GreenError == Abs(shownPixel[1][2] - pixel[2])
BlueError  == Abs(shownPixel[1][3] - pixel[3])
Decoded    == <<shownPixel[1][1], shownPixel[1][2], shownPixel[1][3]>>
Encoded    == pc = "shown" /\ IsOpaque(pixel, colorKey)

\* C2 as claimed: the decoded colour is within 7, 3 and 7 of (r, g, b), and is
\* (r, g, b) itself whenever r and b are multiples of 8 and g a multiple of 4.
C2_AsClaimed ==
    Encoded =>
        /\ RedError <= 7 /\ GreenError <= 3 /\ BlueError <= 7
        /\ (pixel[1] % 8 = 0 /\ pixel[2] % 4 = 0 /\ pixel[3] % 8 = 0)
              => Decoded = <<pixel[1], pixel[2], pixel[3]>>

\* The low bits of each component repeat its high bits.
LowBitsRepeatHigh(px) ==
    /\ px[1] % 8 = px[1] \div 32
    /\ px[2] % 4 = px[2] \div 64
    /\ px[3] % 8 = px[3] \div 32

\* C2 amended: the decoded colour is within 7, 3 and 7 of (r, g, b), unless the
\* colour quantises to the sentinel: it is then stored as 0xF81E, decodes to
\* (255, 0, 247), and blue is up to 8 away.  The decoded colour is (r, g, b)
\* itself exactly when the low bits of each component repeat its high bits and
\* the colour does not quantise to the sentinel.
C2_RoundTripError ==
    Encoded =>
        /\ RedError <= 7 /\ GreenError <= 3
        /\ IF QuantisesToSentinel(pixel)
             THEN Decoded = <<255, 0, 247>> /\ BlueError <= 8
             ELSE BlueError <= 7
        /\ Decoded = <<pixel[1], pixel[2], pixel[3]>>
              <=> (LowBitsRepeatHigh(pixel) /\ ~QuantisesToSentinel(pixel))
        /\ shownPixel[1][4] = 255

\* (248, 252, 248) has come back as (255, 255, 255).
C2_Witness ==
    /\ Encoded
    /\ <<pixel[1], pixel[2], pixel[3]>> = <<248, 252, 248>>
    /\ Decoded = <<255, 255, 255>>


(***************************************************************************)
(* SheetSpec: an image through convert_sprite (sprite2c.py), and the       *)
(* frames back into an image through the export of spritedata2png.py.      *)
(***************************************************************************)
MaxImageW == 4
MaxImageH == 2
MaxFrameW == 2
MaxFrameH == 2
MaxCols   == 2

RED_RGB == <<255, 60, 60>>           \* generate_placeholders.py: RED

\* Source pixels: fully transparent, opaque white, opaque magenta, opaque red,
\* translucent red below the threshold, blue at the threshold.
PixelSamples ==
    { TRANSPARENT_PIXEL,
      <<255, 255, 255, 255>>,
      <<255, 0, 255, 255>>,
      <<255, 60, 60, 255>>,
      <<255, 60, 60, 127>>,
      <<80, 120, 255, 128>> }

\* An image of one background pixel with one pixel marked.
MarkedImage(W, H, bg, mark, at) ==
    [w |-> W, h |-> H, px |-> [k \in 1..(W * H) |-> IF k = at THEN mark ELSE bg]]

ColsChoices == {None} \cup {<<n>> : n \in 0..MaxCols}

IdleCodec ==
    /\ pixel = None /\ paletteVal = None /\ storedVal = None /\ shownPixel = None

SheetInit ==
    /\ pc = "image"
    /\ \E W \in 1..MaxImageW, H \in 1..MaxImageH, bg \in PixelSamples, mark \in PixelSamples :
         \E at \in 1..(W * H) : image = MarkedImage(W, H, bg, mark, at)
    /\ frameW \in 1..MaxFrameW
    /\ frameH \in 1..MaxFrameH
    /\ colorKey \in ColorKeys
    /\ cols \in ColsChoices
    /\ converted = None /\ frameList = None /\ sheet = None /\ reconverted = None
    /\ IdleCodec /\ IdleText /\ IdleGen

\* sprite2c.py: frames = convert_sprite(img, frame_width, frame_height,
\* transparent_color, cols)
ConvertImage ==
    /\ pc = "image"
    /\ converted' = convert_sprite(image, frameW, frameH, colorKey, cols)
    /\ pc' = "converted"
    /\ UNCHANGED <<image, frameW, frameH, cols, frameList, sheet, reconverted, codecVars, textVars, genVars>>

\* spritedata2png.py: main, the frames of one sprite exported as its PNG
ExportConverted ==
    /\ pc = "converted"
    /\ converted.status = "ok"
    /\ frameList' = converted.frames
    /\ sheet' = ExportSprite(converted.frames, frameW, frameH, DEFAULT_SCALE)
    /\ pc' = "exported"
    /\ UNCHANGED <<image, frameW, frameH, cols, converted, reconverted, codecVars, textVars, genVars>>

SheetNext == ConvertImage \/ ExportConverted

SheetSpec == SheetInit /\ [][SheetNext]_vars


\* convert_sprite returned frames, with the columns inferred from the width.
Split == pc # "image" /\ cols = None /\ converted.status = "ok"

(***************************************************************************)
(* C8: with columns omitted, convert_sprite returns                        *)
(* floor(W/w) * floor(H/h) frames in row-major order; the frame at index   *)
(* row*cols+col holds, in row-major pixel order, the w*h pixels of the     *)
(* cell whose top-left corner is (col*w, row*h).                           *)
(***************************************************************************)
C8_RowMajorCells ==
    Split =>
        LET ncols == image.w \div frameW
            nrows == image.h \div frameH
        IN  /\ Len(converted.frames) = ncols * nrows
            /\ \A row \in 0..(nrows - 1), col \in 0..(ncols - 1) :
                 LET frame == converted.frames[row * ncols + col + 1]
                 IN  /\ Len(frame) = frameW * frameH
                     /\ \A y \in 0..(frameH - 1), x \in 0..(frameW - 1) :
                          frame[y * frameW + x + 1] =
                              ConvertPixel(getpixel(image, col * frameW + x, row * frameH + y),
                                           colorKey)

\* An image of size (3w, h) has given three frames, the third one different
\* from the first.
C8_Witness ==
    /\ Split
    /\ image.w = 3 * frameW /\ image.h = frameH
    /\ Len(converted.frames) = 3
    /\ converted.frames[3] # converted.frames[1]
    /\ converted.frames[2] = converted.frames[1]

(***************************************************************************)
(* C9: how convert_sprite resolves transparency, pixel by pixel.           *)
(***************************************************************************)
\* The value the claim gives a pixel: the sentinel when a colour key is given
\* and matches, or when no colour key is given and alpha is below 128;
\* the encoding of the RGB in every other case.
ClaimedValue(px, key) ==
    IF \/ key # None /\ <<px[1], px[2], px[3]>> = key
       \/ key = None /\ px[4] < 128
      THEN 63519
      ELSE rgb565(px[1], px[2], px[3])

\* The same with alpha tested whether or not a colour key is given.
AmendedValue(px, key) ==
    IF \/ key # None /\ <<px[1], px[2], px[3]>> = key
       \/ px[4] < 128
      THEN 63519
      ELSE rgb565(px[1], px[2], px[3])

\* Every pixel of every frame against F of the source pixel of its cell.
FramesAre(F(_, _)) ==
    LET ncols == image.w \div frameW
    IN  \A i \in 1..Len(converted.frames) :
          \A k \in 1..(frameW * frameH) :
             converted.frames[i][k] =
                F(getpixel(image,
                           ((i - 1) % ncols) * frameW + ((k - 1) % frameW),
                           ((i - 1) \div ncols) * frameH + ((k - 1) \div frameW)),
                  colorKey)

\* C9 as claimed.
C9_AsClaimed == Split => FramesAre(ClaimedValue)

\* C9 amended: the output is the sentinel if a colour key is given and the
\* pixel's (r, g, b) equals it, or if the pixel's alpha is below 128, whether
\* or not a colour key is given; in every other case it is the encoding of
\* the pixel's RGB.
C9_Transparency == Split => FramesAre(AmendedValue)

\* With colour key (255, 0, 255), a magenta pixel followed by an opaque
\* (255, 60, 60) pixel has given [0xF81F, encode(255, 60, 60)].
C9_Witness ==
    /\ Split
    /\ colorKey = MAGENTA
    /\ image = [w |-> 2, h |-> 1, px |-> << <<255, 0, 255, 255>>, <<255, 60, 60, 255>> >>]
    /\ frameW = 2 /\ frameH = 1
    /\ converted.frames = << <<63519, 63975>> >>

(***************************************************************************)
(* C6: an image whose width is a multiple of w and whose height is h,      *)
(* split by convert_sprite (columns omitted) and composed back by the      *)
(* export at scale 1.                                                      *)
(***************************************************************************)
Strip ==
    /\ cols = None
    /\ image.w % frameW = 0 /\ image.h = frameH

\* C6 as claimed: the composed image is the image, pixel for pixel.
C6_AsClaimed == (pc = "exported" /\ Strip) => sheet = <<image>>

\* What the two conversions leave of a pixel.
Survives(px, key) ==
    \/ px = TRANSPARENT_PIXEL
    \/ /\ px[4] = 255
       /\ LowBitsRepeatHigh(px) /\ ~QuantisesToSentinel(px)
       /\ ~(key # None /\ <<px[1], px[2], px[3]>> = key)

\* C6 amended: the composed image has the size of the image; each pixel is
\* (0, 0, 0, 0) where the source pixel is transparent for convert_sprite and
\* the decoding of its encoding, with alpha 255, elsewhere.  The image is
\* reproduced exactly if and only if every pixel is (0, 0, 0, 0) or has alpha
\* 255 and a colour that is not the colour key, does not quantise to the
\* sentinel and whose low bits repeat its high bits.
C6_ComposeSplit ==
    (pc = "exported" /\ Strip) =>
        /\ sheet # None
        /\ sheet[1].w = image.w /\ sheet[1].h = image.h
        /\ \A y \in 0..(image.h - 1), x \in 0..(image.w - 1) :
              getpixel(sheet[1], x, y) =
                 PutPixel(ConvertPixel(getpixel(image, x, y), colorKey))
        /\ sheet = <<image>>
              <=> \A k \in 1..Len(image.px) : Survives(image.px[k], colorKey)

\* A strip of two frames, white with one transparent pixel in the second
\* frame, has come back unchanged.
C6_Witness ==
    /\ pc = "exported" /\ Strip
    /\ image.w = 2 * frameW
    /\ Len(frameList) = 2
    /\ image.px[1] = <<255, 255, 255, 255>>
    /\ image.px[image.w] = TRANSPARENT_PIXEL
    /\ sheet = <<image>>


(***************************************************************************)
(* StripSpec: frames through the export of spritedata2png.py, and the      *)
(* image back through convert_sprite (alpha transparency, columns          *)
(* omitted).                                                               *)
(***************************************************************************)
MaxFrames == 3

WHITE_RGB565 == 65535            \* generate_placeholders.py: WHITE

\* Every value of each bit field alone, white, and the two magentas 0xF81F
\* and 0xF81E.
ValueSamples ==
    { r5 * 2048 : r5 \in 0..31 } \cup { g6 * 32 : g6 \in 0..63 } \cup (0..31)
        \cup {WHITE_RGB565, TRANSPARENT_RGB565, FALLBACK_RGB565}

BackgroundValues == {TRANSPARENT_RGB565, 0}

\* n frames of `size` values, all bg but for value k of frame f.
MarkedFrames(n, size, bg, mark, f, k) ==
    [i \in 1..n |-> [j \in 1..size |-> IF i = f /\ j = k THEN mark ELSE bg]]

StripInit ==
    /\ pc = "frames"
    /\ frameW \in 1..MaxFrameW
    /\ frameH \in 1..MaxFrameH
    /\ \E n \in 1..MaxFrames, bg \in BackgroundValues, mark \in ValueSamples :
         \E f \in 1..n, k \in 1..(frameW * frameH) :
            frameList = MarkedFrames(n, frameW * frameH, bg, mark, f, k)
    /\ colorKey = None
    /\ cols = None
    /\ image = None /\ converted = None /\ sheet = None /\ reconverted = None
    /\ IdleCodec /\ IdleText /\ IdleGen

\* spritedata2png.py: main, the frames of one sprite exported as its PNG
ExportFrames ==
    /\ pc = "frames"
    /\ sheet' = ExportSprite(frameList, frameW, frameH, DEFAULT_SCALE)
    /\ pc' = "sheet"
    /\ UNCHANGED <<image, frameW, frameH, cols, converted, frameList, reconverted, codecVars, textVars, genVars>>

\* sprite2c.py: convert_sprite on the exported PNG
ReconvertSheet ==
    /\ pc = "sheet"
    /\ sheet # None
    /\ reconverted' = convert_sprite(sheet[1], frameW, frameH, colorKey, cols)
    /\ pc' = "reconverted"
    /\ UNCHANGED <<image, frameW, frameH, cols, converted, frameList, sheet, codecVars, textVars, genVars>>

StripNext == ExportFrames \/ ReconvertSheet

StripSpec == StripInit /\ [][StripNext]_vars

(***************************************************************************)
(* C7: the PNG the export builds from a non-empty sequence of frames of    *)
(* w*h values in 0..0xFFFF converts back, with convert_sprite (alpha       *)
(* transparency, columns omitted), to exactly those frames, in order,      *)
(* 0xF81F and 0xF81E included.                                             *)
(***************************************************************************)
C7_ExportThenConvert ==
    /\ pc = "sheet" =>
          /\ sheet # None
          /\ sheet[1].w = frameW * Len(frameList) /\ sheet[1].h = frameH
    /\ pc = "reconverted" =>
          /\ reconverted.status = "ok"
          /\ reconverted.frames = frameList

\* Three frames holding both 0xF81F and 0xF81E have come back.
C7_Witness ==
    /\ pc = "reconverted"
    /\ Len(frameList) = 3
    /\ frameList[1][1] = 63519
    /\ frameList[3][frameW * frameH] = 63518
    /\ reconverted.frames = frameList


(***************************************************************************)
(* TextSpec: arrays declared with format_array (sprite2c.py), the text     *)
(* read back with parse_sprite_arrays and group_frames                     *)
(* (spritedata2png.py).                                                    *)
(***************************************************************************)
MaxArrays   == 3        \* declarations in one header
MaxFrameIdx == 2
MaxPixels   == 2        \* values in one array

SAD      == <<"s", "a", "d">>
X_FRAME1 == <<"x", "_", "f", "r", "a", "m", "e", "1">>
SpriteNameSamples == <<SAD, X_FRAME1>>

\* 16-bit values: black, the sentinel, white, blue, 0x0ABC, the fallback, green
Color565Samples == <<0, 63519, 65535, 31, 2748, 63518, 2016>>

\* The values of frame frame_idx of sprite number n: different for each frame.
FrameData(n, frame_idx, size) ==
    [j \in 1..size |->
        Color565Samples[((3 * n + 2 * frame_idx + j) % Len(Color565Samples)) + 1]]

ArrayKeys == (1..Len(SpriteNameSamples)) \X (0..MaxFrameIdx)

\* The sequences of at most n different keys, in every order.
RECURSIVE KeySeqs(_)
KeySeqs(n) ==
    IF n = 0 THEN {<< >>}
    ELSE KeySeqs(n - 1) \cup
         { Append(q, k) : q \in { x \in KeySeqs(n - 1) : Len(x) = n - 1 },
                          k \in ArrayKeys }
KeyOrders == { q \in KeySeqs(MaxArrays) :
                 /\ Len(q) >= 1
                 /\ \A i, j \in 1..Len(q) : i # j => q[i] # q[j] }

Declarations(keys, size) ==
    [i \in 1..Len(keys) |->
        [name |-> SpriteNameSamples[keys[i][1]],
         frame_idx |-> keys[i][2],
         data |-> FrameData(keys[i][1], keys[i][2], size)]]

\* One array of one repeated value, for every hexadecimal digit in every place.
HexSweep ==
    { d * p : d \in 0..15, p \in {1, 16, 256, 4096} } \cup {63519, 63518, 65535}
SweepDeclarations ==
    { <<[name |-> SAD, frame_idx |-> 0, data |-> [j \in 1..size |-> v]]>> :
        v \in HexSweep, size \in 1..MaxPixels }

\* sprite2c.py: the pixel arrays of a header,
\* lines.append(format_array(name, i, frame, width)); lines.append("")
ArrayLines(declarations, width) ==
    Join(<<"\n">>,
         [i \in 1..(2 * Len(declarations)) |->
             IF i % 2 = 1
               THEN format_array(declarations[(i + 1) \div 2].name,
                                 declarations[(i + 1) \div 2].frame_idx,
                                 declarations[(i + 1) \div 2].data, width)
               ELSE << >>])

TextInit ==
    /\ pc = "declared"
    /\ \/ \E keys \in KeyOrders, size \in 0..MaxPixels : doc = Declarations(keys, size)
       \/ doc \in SweepDeclarations
    /\ frameW \in 1..MaxFrameW
    /\ frameH = 1
    /\ headerText = None /\ parsed = None /\ sprites = None
    /\ individual = FALSE /\ cursor = 0 /\ log = None /\ files = None
    /\ colorKey = None
    /\ IdleCodec /\ IdleRaster0 /\ IdleGen

\* sprite2c.py: every array written with format_array
WriteArrays ==
    /\ pc = "declared"
    /\ headerText' = ArrayLines(doc, frameW)
    /\ pc' = "written"
    /\ UNCHANGED <<doc, parsed, sprites, individual, cursor, log, files, codecVars, rasterVars, genVars>>

\* spritedata2png.py: arrays = parse_sprite_arrays(content)
ParseArrays ==
    /\ pc = "written"
    /\ parsed' = parse_sprite_arrays(headerText)
    /\ pc' = "parsed"
    /\ UNCHANGED <<doc, headerText, sprites, individual, cursor, log, files, codecVars, rasterVars, genVars>>

\* spritedata2png.py: grouped = group_frames(arrays)
GroupFrames ==
    /\ pc = "parsed"
    /\ sprites' = group_frames(parsed)
    /\ pc' = "grouped"
    /\ UNCHANGED <<doc, headerText, parsed, individual, cursor, log, files, codecVars, rasterVars, genVars>>

TextNext == WriteArrays \/ ParseArrays \/ GroupFrames

TextSpec == TextInit /\ [][TextNext]_vars


\* The declarations of doc for sprite `name`, and the frame indices present.
DeclsOf(name) == { d \in { doc[i] : i \in 1..Len(doc) } : d.name = name }
IndicesOf(name) == { d.frame_idx : d \in DeclsOf(name) }
DocNames == { doc[i].name : i \in 1..Len(doc) }

\* The frames of `name` that are present, by ascending frame index.
FramesByIndex(name) ==
    [j \in 1..Cardinality(IndicesOf(name)) |->
        (CHOOSE d \in DeclsOf(name) :
            Cardinality({k \in IndicesOf(name) : k < d.frame_idx}) = j - 1).data]

\* doc goes sprite by sprite, each with its frames 0, 1, ... in order.
InFrameOrder ==
    \A i \in 1..Len(doc) :
        IF i > 1 /\ doc[i - 1].name = doc[i].name
          THEN doc[i].frame_idx = doc[i - 1].frame_idx + 1
          ELSE /\ doc[i].frame_idx = 0
               /\ \A j \in 1..(i - 1) : doc[j].name # doc[i].name

\* The sprites of doc in the order of their first array, each with its
\* frames in the order of doc.
FirstOf(name) == CHOOSE i \in 1..Len(doc) :
                    doc[i].name = name /\ \A j \in 1..(i - 1) : doc[j].name # name
NamesInOrder ==
    [r \in 1..Cardinality(DocNames) |->
        CHOOSE name \in DocNames :
            Cardinality({m \in DocNames : FirstOf(m) < FirstOf(name)}) = r - 1]
FramesInDocOrder(name) ==
    LET at == SelectSeq([i \in 1..Len(doc) |-> i], LAMBDA i : doc[i].name = name)
    IN  [j \in 1..Len(at) |-> doc[at[j]].data]

(***************************************************************************)
(* C3: sprites serialised frame by frame with format_array, then read with *)
(* parse_sprite_arrays and group_frames, come back with the same names in  *)
(* the same order, each with the same frames in the same order and the     *)
(* same values.  (Every sprite has at least one frame, and the names are   *)
(* identifiers.)                                                           *)
(***************************************************************************)
C3_TextRoundTrip ==
    /\ pc \in {"parsed", "grouped"} =>
          parsed = [i \in 1..Len(doc) |->
                      [name  |-> ArrayName(doc[i].name, doc[i].frame_idx),
                       value |-> doc[i].data]]
    /\ (pc = "grouped" /\ InFrameOrder) =>
          sprites = [r \in 1..Len(NamesInOrder) |->
                        [name  |-> NamesInOrder[r],
                         value |-> FramesInDocOrder(NamesInOrder[r])]]

\* Two frames of sad and one of x_frame1, of two values each, have come back.
C3_Witness ==
    /\ pc = "grouped" /\ InFrameOrder
    /\ Len(doc) = 3 /\ doc[1].name = SAD /\ doc[2].name = SAD /\ doc[3].name = X_FRAME1
    /\ Len(doc[1].data) = 2
    /\ sprites = << [name |-> SAD, value |-> <<doc[1].data, doc[2].data>>],
                    [name |-> X_FRAME1, value |-> <<doc[3].data>>] >>

(***************************************************************************)
(* C4: whatever the order of the arrays in the text, group_frames gives    *)
(* each sprite exactly its arrays that are present, by ascending frame     *)
(* index; absent indices leave no slot.                                    *)
(***************************************************************************)
C4_OrderIndependent ==
    pc = "grouped" =>
        /\ { sprites[i].name : i \in 1..Len(sprites) } = DocNames
        /\ Len(sprites) = Cardinality(DocNames)
        /\ \A name \in DocNames : DictGet(sprites, name) = FramesByIndex(name)

\* frame1 came before frame0 in the text, and frame0 is first in the result.
C4_Witness ==
    /\ pc = "grouped"
    /\ Len(doc) = 2
    /\ doc[1].name = SAD /\ doc[1].frame_idx = 1
    /\ doc[2].name = SAD /\ doc[2].frame_idx = 0
    /\ Len(doc[1].data) = 1
    /\ sprites = <<[name |-> SAD, value |-> <<doc[2].data, doc[1].data>>]>>

(***************************************************************************)
(* C5: a gap in the frame indices of one sprite (frame0 and frame2         *)
(* present, frame1 missing) is an error: when the arrays have been         *)
(* grouped, a sprite with a gap has been rejected, not accepted as a       *)
(* shorter sequence with its later frames shifted to lower positions.      *)
(* group_frames pads the list with None and then removes the None entries, *)
(* so the sprite is accepted: frame0 and frame2 come out as two frames.    *)
(***************************************************************************)
HasGap(name) ==
    \E k \in 0..MaxFrameIdx : k \notin IndicesOf(name) /\ \E m \in IndicesOf(name) : m > k

C5_AsClaimed ==
    pc = "grouped" => \A name \in DocNames : HasGap(name) => ~DictHas(sprites, name)


(***************************************************************************)
(* ExportSpec: spritedata2png.py main on a header written by sprite2c.py,  *)
(* in which at most one array has one value too few or one too many.  One  *)
(* step per iteration of the export loop.  log is what main prints, files  *)
(* is the output directory.                                                *)
(***************************************************************************)
PNG == <<".", "p", "n", "g">>

\* The keys in ascending order: sprite by sprite, frame by frame.
SortedKeys == { q \in KeyOrders :
                  \A i, j \in 1..Len(q) :
                      i < j => \/ q[i][1] < q[j][1]
                               \/ q[i][1] = q[j][1] /\ q[i][2] < q[j][2] }

\* Every array of `expected` values, but array `odd` (if any) of `size`.
SizedDeclarations(keys, expected, odd, size) ==
    [i \in 1..Len(keys) |->
        [name |-> SpriteNameSamples[keys[i][1]],
         frame_idx |-> keys[i][2],
         data |-> FrameData(keys[i][1], keys[i][2], IF i = odd THEN size ELSE expected)]]

ExportInit ==
    /\ pc = "start"
    /\ frameW \in 1..MaxFrameW
    /\ frameH \in 1..MaxFrameH
    /\ \/ doc = << >>
       \/ \E keys \in SortedKeys, odd \in 0..MaxArrays, by \in {-1, 1} :
            /\ odd <= Len(keys)
            /\ doc = SizedDeclarations(keys, frameW * frameH, odd, frameW * frameH + by)
    /\ headerText = ArrayLines(doc, frameW)
    /\ individual \in BOOLEAN
    /\ parsed = None /\ sprites = None
    /\ cursor = 0 /\ log = << >> /\ files = << >>
    /\ colorKey = None
    /\ IdleCodec /\ IdleRaster0 /\ IdleGen

\* A line printed.
LogLine(tag, name, detail) == [tag |-> tag, name |-> name, detail |-> detail]

\* arrays = parse_sprite_arrays(content); if not arrays: print, sys.exit(1);
\* print(f"Found {len(arrays)} sprite frame(s) ..."), print(f"Sprite size:
\* ..., output scale: {args.scale}x"), print()
ReadHeader ==
    /\ pc = "start"
    /\ parsed' = parse_sprite_arrays(headerText)
    /\ IF parsed' = << >>
         THEN /\ log' = Append(log, LogLine("No sprite arrays found", << >>, 0))
              /\ pc' = "exit"
              /\ cursor' = cursor
         ELSE /\ log' = log \o <<LogLine("Found", << >>, Len(parsed')),
                                LogLine("Sprite size", << >>, DEFAULT_SCALE),
                                LogLine("", << >>, 0)>>
              /\ pc' = IF individual THEN "frames" ELSE "group"
              /\ cursor' = 1
    /\ UNCHANGED <<doc, headerText, sprites, individual, files, codecVars, rasterVars, genVars>>

\* grouped = group_frames(arrays)
GroupArrays ==
    /\ pc = "group"
    /\ sprites' = group_frames(parsed)
    /\ pc' = "sheets"
    /\ UNCHANGED <<doc, headerText, parsed, individual, cursor, log, files,
                   codecVars, rasterVars, genVars>>

\* for name, pixels in arrays.items(): one iteration
ExportFrame ==
    /\ pc = "frames" /\ cursor <= Len(parsed)
    /\ LET name            == parsed[cursor].name
           pixels          == parsed[cursor].value
           expected_pixels == frameW * frameH
       IN  IF Len(pixels) # expected_pixels
             THEN /\ log' = Append(log, LogLine("SKIP", name, Len(pixels)))
                  /\ files' = files
             ELSE /\ files' = DictSet(files, name \o PNG,
                                      create_frame_png(pixels, frameW, frameH, DEFAULT_SCALE))
                  /\ log' = Append(log, LogLine("saved", name \o PNG, 1))
    /\ cursor' = cursor + 1
    /\ UNCHANGED <<pc, doc, headerText, parsed, sprites, individual, codecVars, rasterVars, genVars>>

\* for sprite_name, frame_list in grouped.items(): one iteration
ExportSheet ==
    /\ pc = "sheets" /\ cursor <= Len(sprites)
    /\ LET sprite_name  == sprites[cursor].name
           frame_list   == sprites[cursor].value
           valid_frames == ValidFrames(frame_list, frameW * frameH)
       IN  IF valid_frames = << >>
             THEN /\ log' = Append(log, LogLine("SKIP", sprite_name, 0))
                  /\ files' = files
             ELSE /\ files' = DictSet(files, sprite_name \o PNG,
                                      ExportSprite(frame_list, frameW, frameH, DEFAULT_SCALE)[1])
                  /\ log' = Append(log, LogLine("saved", sprite_name \o PNG, Len(valid_frames)))
    /\ cursor' = cursor + 1
    /\ UNCHANGED <<pc, doc, headerText, parsed, sprites, individual, codecVars, rasterVars, genVars>>

\* print(f"\nExported to ...")
Finish ==
    /\ \/ pc = "frames" /\ cursor > Len(parsed)
       \/ pc = "sheets" /\ cursor > Len(sprites)
    /\ log' = Append(log, LogLine("Exported", << >>, 0))
    /\ pc' = "done"
    /\ UNCHANGED <<doc, headerText, parsed, sprites, individual, cursor, files,
                   codecVars, rasterVars, genVars>>

ExportNext == ReadHeader \/ GroupArrays \/ ExportFrame \/ ExportSheet \/ Finish

ExportSpec == ExportInit /\ [][ExportNext]_vars

\* The parsed arrays whose element count is not width * height.
Mismatched == { i \in 1..Len(parsed) : Len(parsed[i].value) # frameW * frameH }

(***************************************************************************)
(* C10: when the export is over, every parsed array whose element count    *)
(* differs from width * height has been reported by a line that names the  *)
(* array, in either export mode.                                           *)
(***************************************************************************)
C10_AsClaimed ==
    pc = "done" =>
        \A i \in Mismatched :
            \E l \in 1..Len(log) : log[l].tag = "SKIP" /\ log[l].name = parsed[i].name


(***************************************************************************)
(* sprite2c.py: the sprite table and the animation metadata.               *)
(***************************************************************************)
SPRITE_NAMES ==
    << <<"e", "g", "g", "_", "i", "d", "l", "e">>,
       <<"b", "a", "b", "y", "_", "i", "d", "l", "e">>,
       <<"t", "e", "e", "n", "_", "i", "d", "l", "e">>,
       <<"a", "d", "u", "l", "t", "_", "i", "d", "l", "e">>,
       <<"e", "l", "d", "e", "r", "_", "i", "d", "l", "e">>,
       <<"g", "h", "o", "s", "t">>,
       <<"s", "i", "c", "k">>,
       <<"h", "a", "p", "p", "y">>,
       <<"s", "a", "d">>,
       <<"e", "a", "t", "i", "n", "g">>,
       <<"p", "l", "a", "y", "i", "n", "g">>,
       <<"s", "l", "e", "e", "p", "i", "n", "g">> >>

\* (frameDelayMs, loop) by sprite name
DEFAULT_ANIM_CONFIG ==
    << [name |-> SPRITE_NAMES[1], value |-> <<800, TRUE>>],
       [name |-> SPRITE_NAMES[2], value |-> <<600, TRUE>>],
       [name |-> SPRITE_NAMES[3], value |-> <<500, TRUE>>],
       [name |-> SPRITE_NAMES[4], value |-> <<400, TRUE>>],
       [name |-> SPRITE_NAMES[5], value |-> <<700, TRUE>>],
       [name |-> SPRITE_NAMES[6], value |-> <<500, TRUE>>],
       [name |-> SPRITE_NAMES[7], value |-> <<1000, TRUE>>],
       [name |-> SPRITE_NAMES[8], value |-> <<400, TRUE>>],
       [name |-> SPRITE_NAMES[9], value |-> <<800, TRUE>>],
       [name |-> SPRITE_NAMES[10], value |-> <<300, FALSE>>],
       [name |-> SPRITE_NAMES[11], value |-> <<300, FALSE>>],
       [name |-> SPRITE_NAMES[12], value |-> <<1000, TRUE>>] >>

DEFAULT_DELAY == 500        \* anim_config.get(sprite_name, (500, True))

\* the characters lower() changes, and what it gives for each
UpperAlphabet ==
    <<"A", "B", "C", "D", "E", "F", "G", "H", "I", "J", "K", "L", "M",
      "N", "O", "P", "Q", "R", "S", "T", "U", "V", "W", "X", "Y", "Z",
      "À", "Á", "Â", "Ã", "Ä", "Å", "Æ", "Ç", "È", "É", "Ê", "Ë", "Ì",
      "Í", "Î", "Ï", "Ð", "Ñ", "Ò", "Ó", "Ô", "Õ", "Ö", "Ø", "Ù", "Ú",
      "Û", "Ü", "Ý", "Þ">>
LowerAlphabet ==
    <<"a", "b", "c", "d", "e", "f", "g", "h", "i", "j", "k", "l", "m",
      "n", "o", "p", "q", "r", "s", "t", "u", "v", "w", "x", "y", "z",
      "à", "á", "â", "ã", "ä", "å", "æ", "ç", "è", "é", "ê", "ë", "ì",
      "í", "î", "ï", "ð", "ñ", "ò", "ó", "ô", "õ", "ö", "ø", "ù", "ú",
      "û", "ü", "ý", "þ">>

\* str.lower()
str_lower(str) ==
    [i \in 1..Len(str) |->
        IF \E k \in 1..Len(UpperAlphabet) : UpperAlphabet[k] = str[i]
          THEN LowerAlphabet[CHOOSE k \in 1..Len(UpperAlphabet) : UpperAlphabet[k] = str[i]]
          ELSE str[i]]

\* str with the leading and trailing characters of `blanks` removed
RECURSIVE StripChars(_, _)
StripChars(str, blanks) ==
    IF Len(str) = 0 THEN str
    ELSE IF str[1] \in blanks THEN StripChars(Tail(str), blanks)
    ELSE IF str[Len(str)] \in blanks THEN StripChars(SubSeq(str, 1, Len(str) - 1), blanks)
    ELSE str

\* str.strip()
str_strip(str) == StripChars(str, SpaceChars)

\* str.split(sep) for a separator of one character
RECURSIVE str_split(_, _)
str_split(str, sep) ==
    IF \A i \in 1..Len(str) : str[i] # sep THEN <<str>>
    ELSE LET at == CHOOSE i \in 1..Len(str) :
                       str[i] = sep /\ \A j \in 1..(i - 1) : str[j] # sep
         IN  <<SubSeq(str, 1, at - 1)>> \o str_split(SubSeq(str, at + 1, Len(str)), sep)

\* str.startswith(prefix)
startswith(str, prefix) ==
    Len(str) >= Len(prefix) /\ SubSeq(str, 1, Len(prefix)) = prefix

\* f"{n}" for any integer
IntStr(n) == IF n < 0 THEN <<"-">> \o DecStr(0 - n) ELSE DecStr(n)

\* int(str): << >> for ValueError, else <<n>>.  A literal is an optional
\* sign and decimal digits, single underscores allowed between digits.
IsIntLiteral(str) ==
    LET body == IF Len(str) > 0 /\ str[1] \in {"+", "-"} THEN Tail(str) ELSE str
    IN  /\ Len(body) > 0
        /\ \A i \in 1..Len(body) : body[i] \in DigitChars \cup {"_"}
        /\ body[1] # "_" /\ body[Len(body)] # "_"
        /\ \A i \in 1..(Len(body) - 1) : ~(body[i] = "_" /\ body[i + 1] = "_")
int(str) ==
    LET s    == StripChars(str, IntSpaceChars)
        body == IF Len(s) > 0 /\ s[1] \in {"+", "-"} THEN Tail(s) ELSE s
        n    == ParseInt(SelectSeq(body, LAMBDA ch : ch # "_"), 10)
    IN  IF ~IsIntLiteral(s) THEN None
        ELSE IF s[1] = "-" THEN <<0 - n>> ELSE <<n>>

\* load_anim_config with a malformed line ending the loop
ConfigLine_stop_at_malformed(state, raw) ==
    LET line  == str_strip(raw)
        parts == str_split(line, ",")
    IN  IF state.log # << >> THEN state
        ELSE IF line = << >> \/ startswith(line, <<"#">>) THEN state
        ELSE IF Len(parts) = 3
          THEN LET delay == int(str_strip(parts[2]))
               IN  IF delay # None
                     THEN [state EXCEPT !.config =
                             DictSet(@, str_strip(parts[1]),
                                     <<delay[1], str_lower(str_strip(parts[3])) = <<"t", "r", "u", "e">>>>)]
                     ELSE [state EXCEPT !.log = Append(@, LogLine("WARNING: Invalid config line", line, 0))]
          ELSE [state EXCEPT !.log = Append(@, LogLine("WARNING: Malformed config line", line, 0))]

\* load_anim_config: one line of sprite_config.txt.  state is
\* [config, log]: the mapping so far and the warnings printed.
ConfigLine(state, raw) ==
    LET line  == str_strip(raw)
        parts == str_split(line, ",")
    IN  IF line = << >> \/ startswith(line, <<"#">>) THEN state
        ELSE IF Len(parts) = 3
          THEN LET delay == int(str_strip(parts[2]))
               IN  IF delay # None
                     THEN [state EXCEPT !.config =
                             DictSet(@, str_strip(parts[1]),
                                     <<delay[1], str_lower(str_strip(parts[3])) = <<"t", "r", "u", "e">>>>)]
                     ELSE [state EXCEPT !.log = Append(@, LogLine("WARNING: Invalid config line", line, 0))]
          ELSE [state EXCEPT !.log = Append(@, LogLine("WARNING: Malformed config line", line, 0))]

RECURSIVE ConfigLines(_, _)
ConfigLines(state, lines) ==
    IF Len(lines) = 0 THEN state
    ELSE ConfigLines(ConfigLine(state, lines[1]), Tail(lines))

\* load_anim_config(sprite_dir): [config, log].  config_file is << >> when
\* sprite_config.txt does not exist, else <<lines>>.
load_anim_config(config_file) ==
    LET start == [config |-> DEFAULT_ANIM_CONFIG, log |-> << >>]
    IN  IF config_file = None THEN start ELSE ConfigLines(start, config_file[1])


(***************************************************************************)
(* sprite2c.py: generate_header and generate_spritedata.  A directory is   *)
(* the mapping of its PNG files, by name without ".png", to their images.  *)
(***************************************************************************)
\* generate_header
generate_header(name, frames, width, height) ==
    Join(<<"\n">>,
         << <<"/", "/", " ", "A", "u", "t", "o", "-", "g", "e", "n", "e", "r", "a", "t", "e", "d", " ", "b", "y", " ", "s", "p", "r", "i", "t", "e", "2", "c", ".", "p", "y", " ", "-", " ">> \o name,
            <<"/", "/", " ">> \o DecStr(Len(frames)) \o <<" ", "f", "r", "a", "m", "e", "(", "s", ")", ",", " ">> \o DecStr(width) \o <<"x">>
                \o DecStr(height) \o <<" ", "R", "G", "B", "5", "6", "5">>,
            <<"/", "/", " ", "T", "r", "a", "n", "s", "p", "a", "r", "e", "n", "t", " ", "c", "o", "l", "o", "r", " ", "k", "e", "y", ":", " ">> \o Hex04(TRANSPARENT_RGB565) \o <<" ", "(", "m", "a", "g", "e", "n", "t", "a", ")">>,
            << >>,
            <<"#", "p", "r", "a", "g", "m", "a", " ", "o", "n", "c", "e">>,
            <<"#", "i", "n", "c", "l", "u", "d", "e", " ", "<", "c", "s", "t", "d", "i", "n", "t", ">">>,
            << >> >>
         \o [i \in 1..(2 * Len(frames)) |->
                IF i % 2 = 1
                  THEN format_array(name, (i - 1) \div 2, frames[(i + 1) \div 2], width)
                  ELSE << >>])

\* generate_spritedata: the lines before the first sprite
SpriteDataPreamble(frame_width, frame_height) ==
    << <<"/", "*", "*">>,
       <<" ", "*", " ", "@", "f", "i", "l", "e", " ", "S", "p", "r", "i", "t", "e", "D", "a", "t", "a", ".", "h">>,
       <<" ", "*", " ", "@", "b", "r", "i", "e", "f", " ">> \o DecStr(frame_width) \o <<"x">> \o DecStr(frame_height)
           \o <<" ", "R", "G", "B", "5", "6", "5", " ", "s", "p", "r", "i", "t", "e", " ", "d", "a", "t", "a", " ", "f", "o", "r", " ", "T", "a", "m", "a", "T", "a", "c">>,
       <<" ", "*">>,
       <<" ", "*", " ", "A", "u", "t", "o", "-", "g", "e", "n", "e", "r", "a", "t", "e", "d", " ", "b", "y", " ", "s", "p", "r", "i", "t", "e", "2", "c", ".", "p", "y", " ", "-", "-", "s", "p", "r", "i", "t", "e", "d", "a", "t", "a">>,
       <<" ", "*", " ", "R", "e", "-", "g", "e", "n", "e", "r", "a", "t", "e", " ", "w", "i", "t", "h", ":", " ", "p", "y", "t", "h", "o", "n", " ", "s", "p", "r", "i", "t", "e", "2", "c", ".", "p", "y", " ", "<", "s", "p", "r", "i", "t", "e", "s", "_", "d", "i", "r", ">", " ", "-", "-", "s", "p", "r", "i", "t", "e", "d", "a", "t", "a", " ", "-", "o", " ", "S", "p", "r", "i", "t", "e", "D", "a", "t", "a", ".", "h">>,
       <<" ", "*", "/">>,
       <<"#", "p", "r", "a", "g", "m", "a", " ", "o", "n", "c", "e">>,
       << >>,
       <<"#", "i", "n", "c", "l", "u", "d", "e", " ", "\"", "S", "p", "r", "i", "t", "e", "s", ".", "h", "\"">>,
       << >> >>

\* format_array(sprite_name, i, frame, frame_width), "" for i, frame in enumerate(frames)
FrameArrayLines(name, frames, width) ==
    [i \in 1..(2 * Len(frames)) |->
        IF i % 2 = 1
          THEN format_array(name, (i - 1) \div 2, frames[(i + 1) \div 2], width)
          ELSE << >>]

\* generate_spritedata, "Process each sprite" from sprite number `from` on.
\* pass is [status, counts, lines, log, total]; status "exit" is the
\* sys.exit(1) of convert_sprite.
RECURSIVE ProcessSprites(_, _, _, _, _, _)
ProcessSprites(pass, from, sprite_dir, frame_width, frame_height, transparent_color) ==
    IF from > Len(SPRITE_NAMES) \/ pass.status # "ok" THEN pass
    ELSE LET sprite_name == SPRITE_NAMES[from]
             converted_  == convert_sprite(DictGet(sprite_dir, sprite_name), frame_width,
                                           frame_height, transparent_color, None)
             next ==
               IF ~DictHas(sprite_dir, sprite_name)
                 THEN [pass EXCEPT
                         !.log = Append(@, LogLine("WARNING: not found, skipping", sprite_name, 0)),
                         !.counts = DictSet(@, sprite_name, 0)]
               ELSE IF converted_.status # "ok"
                 THEN [pass EXCEPT
                         !.status = converted_.status,
                         !.log = Append(@, LogLine("Error: Image is smaller than frame size",
                                                   sprite_name, 0))]
               ELSE [pass EXCEPT
                       !.counts = DictSet(@, sprite_name, Len(converted_.frames)),
                       !.total = @ + Len(converted_.frames),
                       !.log = Append(@, LogLine("frame(s) from", sprite_name,
                                                 Len(converted_.frames))),
                       !.lines = @ \o FrameArrayLines(sprite_name, converted_.frames, frame_width)]
         IN  ProcessSprites(next, from + 1, sprite_dir, frame_width, frame_height,
                            transparent_color)

\* sprite_frame_counts.get(sprite_name, 0)
CountOf(counts, sprite_name) ==
    IF DictHas(counts, sprite_name) THEN DictGet(counts, sprite_name) ELSE 0

\* The references numbered from 1: frame1 .. frame<count>
FrameRefs_from_one(name, count) ==
    Join(<<",", " ">>, [i \in 1..count |-> <<"{">> \o ArrayName(name, i) \o <<"}">>])

\* ", ".join(f"{{sprite_{sprite_name}_frame{i}}}" for i in range(count))
FrameRefs(name, count) ==
    Join(<<",", " ">>, [i \in 1..count |-> <<"{">> \o ArrayName(name, i - 1) \o <<"}">>])

\* f"constexpr AnimFrame frames_{sprite_name}[] = {{ {frame_refs} }};"
AnimFrameLine(name, count) ==
    <<"c", "o", "n", "s", "t", "e", "x", "p", "r", " ", "A", "n", "i", "m", "F", "r", "a", "m", "e", " ", "f", "r", "a", "m", "e", "s", "_">> \o name \o <<"[", "]", " ", "=", " ", "{", " ">> \o FrameRefs(name, count) \o <<" ", "}", ";">>

\* generate_spritedata, "Write AnimFrame arrays"
AnimFrameLines(counts) ==
    LET with == SelectSeq(SPRITE_NAMES, LAMBDA n : CountOf(counts, n) # 0)
    IN  [i \in 1..Len(with) |-> AnimFrameLine(with[i], CountOf(counts, with[i]))]

BoolStr(b) == IF b THEN <<"t", "r", "u", "e">> ELSE <<"f", "a", "l", "s", "e">>

\* f"    {{frames_{sprite_name}, {count}, {delay}, {loop_str}}},"
TableRow(name, count, delay, loop) ==
    <<" ", " ", " ", " ", "{", "f", "r", "a", "m", "e", "s", "_">> \o name \o <<",", " ">> \o IntStr(count) \o <<",", " ">> \o IntStr(delay)
        \o <<",", " ">> \o BoolStr(loop) \o <<"}", ",">>

\* f"    {{nullptr, 0, 0, false}},  // {sprite_name} MISSING"
MissingRow(name) == <<" ", " ", " ", " ", "{", "n", "u", "l", "l", "p", "t", "r", ",", " ", "0", ",", " ", "0", ",", " ", "f", "a", "l", "s", "e", "}", ",", " ", " ", "/", "/", " ">> \o name \o <<" ", "M", "I", "S", "S", "I", "N", "G">>

\* anim_config.get(sprite_name, (500, True))
AnimOf(anim_config, sprite_name) ==
    IF DictHas(anim_config, sprite_name) THEN DictGet(anim_config, sprite_name)
    ELSE <<DEFAULT_DELAY, TRUE>>

\* the table with the rows of the sprites without frames left out
TableRows_skip_missing(counts, anim_config) ==
    LET with == SelectSeq(SPRITE_NAMES, LAMBDA n : CountOf(counts, n) # 0)
    IN  [i \in 1..Len(with) |->
            TableRow(with[i], CountOf(counts, with[i]),
                     AnimOf(anim_config, with[i])[1], AnimOf(anim_config, with[i])[2])]

\* generate_spritedata, "Write animatedSprites table": the rows
TableRows(counts, anim_config) ==
    [i \in 1..Len(SPRITE_NAMES) |->
        LET sprite_name == SPRITE_NAMES[i]
            count       == CountOf(counts, sprite_name)
        IN  IF count = 0 THEN MissingRow(sprite_name)
            ELSE TableRow(sprite_name, count,
                          AnimOf(anim_config, sprite_name)[1], AnimOf(anim_config, sprite_name)[2])]

TABLE_OPEN == <<"c", "o", "n", "s", "t", " ", "A", "n", "i", "m", "a", "t", "e", "d", "S", "p", "r", "i", "t", "e", " ", "a", "n", "i", "m", "a", "t", "e", "d", "S", "p", "r", "i", "t", "e", "s", "[", "P", "E", "T", "_", "S", "P", "R", "I", "T", "E", "_", "C", "O", "U", "N", "T", "]", " ", "=", " ", "{">>

\* generate_spritedata from "Write AnimFrame arrays" to the end: the lines
TableLines(counts, anim_config) ==
    AnimFrameLines(counts) \o << << >>, TABLE_OPEN >> \o TableRows(counts, anim_config)
        \o << <<"}", ";">>, << >> >>

\* generate_spritedata: [status, content, log]
generate_spritedata(sprite_dir, config_file, frame_width, frame_height, transparent_color) ==
    LET loaded == load_anim_config(config_file)
        pass   == ProcessSprites([status |-> "ok", counts |-> << >>,
                                  lines |-> SpriteDataPreamble(frame_width, frame_height),
                                  log |-> loaded.log, total |-> 0],
                                 1, sprite_dir, frame_width, frame_height, transparent_color)
    IN  IF pass.status # "ok"
          THEN [status |-> pass.status, content |-> << >>, log |-> pass.log]
          ELSE [status |-> "ok",
                content |-> Join(<<"\n">>, pass.lines \o TableLines(pass.counts, loaded.config)),
                log |-> Append(pass.log, LogLine("Total", << >>, pass.total))]


(***************************************************************************)
(* sprite2c.py main --batch: the PNG files of the directory in sorted      *)
(* order, each converted by process_file and written as <name>.h.          *)
(***************************************************************************)
\* the characters of file names, in code point order
CharOrder == <<"-", ".", "0", "1", "2", "3", "4", "5", "6", "7", "8", "9", "A", "B", "C", "D", "E", "F", "G", "H", "I", "J", "K", "L", "M", "N", "O", "P", "Q", "R", "S", "T", "U", "V", "W", "X", "Y", "Z", "_", "a", "b", "c", "d", "e", "f", "g", "h", "i", "j", "k", "l", "m", "n", "o", "p", "q", "r", "s", "t", "u", "v", "w", "x", "y", "z">>
Ord(ch) == CHOOSE k \in 1..Len(CharOrder) : CharOrder[k] = ch

\* a < b for strings
RECURSIVE StrLess(_, _)
StrLess(a, b) ==
    IF Len(b) = 0 THEN FALSE
    ELSE IF Len(a) = 0 THEN TRUE
    ELSE IF a[1] # b[1] THEN Ord(a[1]) < Ord(b[1])
    ELSE StrLess(Tail(a), Tail(b))

DOT_PNG == <<".", "p", "n", "g">>
DOT_H   == <<".", "h">>

\* A directory maps the name of each image to the image; the file of the
\* entry `name` is <name>.png.
FileName(name) == name \o DOT_PNG
FileImage(sprite_dir, file) == DictGet(sprite_dir, SubSeq(file, 1, Len(file) - Len(DOT_PNG)))

\* sorted(f for f in os.listdir(args.input) if f.lower().endswith(".png")):
\* the file names
png_files(sprite_dir) ==
    LET listed == { FileName(sprite_dir[i].name) : i \in 1..Len(sprite_dir) }
    IN  [r \in 1..Cardinality(listed) |->
            CHOOSE f \in listed : Cardinality({m \in listed : StrLess(m, f)}) = r - 1]

\* os.path.splitext(p)[0] of a file name without directories: up to the last
\* dot, unless only dots come before it
splitext(p) ==
    LET dots     == { i \in 1..Len(p) : p[i] = "." }
        dotIndex == IF dots = {} THEN 0 ELSE CHOOSE i \in dots : \A j \in dots : j <= i
    IN  IF dotIndex = 0 THEN p
        ELSE IF \A j \in 1..(dotIndex - 1) : p[j] = "." THEN p
        ELSE SubSeq(p, 1, dotIndex - 1)

\* process_file: [status, count, content], count the len(frames) it prints
process_file(img, name, frame_width, frame_height, transparent_color, c) ==
    LET converted_ == convert_sprite(img, frame_width, frame_height, transparent_color, c)
    IN  IF converted_.status # "ok"
          THEN [status |-> converted_.status, count |-> 0, content |-> << >>]
          ELSE [status |-> "ok",
                count |-> Len(converted_.frames),
                content |-> generate_header(name, converted_.frames, frame_width, frame_height)]

(***************************************************************************)
(* generate_placeholders.py: the palette and the drawings.  A grid is the  *)
(* list of its rows; grid[y][x] is row y + 1, column x + 1 here.           *)
(***************************************************************************)
WHITE    == rgb565(255, 255, 255)
CREAM    == rgb565(255, 240, 220)
LGRAY    == rgb565(200, 200, 200)
GRAY     == rgb565(150, 150, 150)
DGRAY    == rgb565(80, 80, 80)
BLACK    == rgb565(20, 20, 20)
RED      == rgb565(255, 60, 60)
DRED     == rgb565(180, 30, 30)
GREEN    == rgb565(60, 200, 60)
BLUE     == rgb565(80, 120, 255)
LBLUE    == rgb565(150, 200, 255)
YELLOW   == rgb565(255, 220, 50)
ORANGE   == rgb565(255, 160, 40)
PINK     == rgb565(255, 150, 180)
LPINK    == rgb565(255, 200, 220)
PURPLE   == rgb565(180, 100, 255)
LPURPLE  == rgb565(220, 180, 255)
CYAN     == rgb565(80, 220, 220)
BROWN    == rgb565(160, 100, 40)
LBROWN   == rgb565(200, 140, 80)
TEAL     == rgb565(50, 180, 160)

\* the assignments grid[y][x] = color of `puts`, a sequence of <<y, x, color>>,
\* in its order; a negative index counts from the end of the list
RECURSIVE SetPixels(_, _)
SetPixels(grid, puts) ==
    LET Index(i, n) == IF i < 0 THEN i + n ELSE i
        SetPixel(g, y, x, color) ==
            [g EXCEPT ![Index(y, Len(g)) + 1][Index(x, Len(g[1])) + 1] = color]
    IN  IF puts = << >> THEN grid
        ELSE SetPixels(SetPixel(grid, puts[1][1], puts[1][2], puts[1][3]), Tail(puts))

\* draw_eyes: for dy in range(2): for dx in range(2): left and right; highlight
draw_eyes(grid, cx, cy, color, highlight) ==
    LET lx == cx - 4
        rx == cx + 3
        ey == cy - 2
    IN  SetPixels(grid,
            [k \in 1..8 |->
                <<ey + ((k - 1) \div 4),
                  (IF k % 2 = 1 THEN lx ELSE rx) + (((k - 1) \div 2) % 2),
                  color>>]
            \o << <<ey, lx, highlight>>, <<ey, rx, highlight>> >>)

\* draw_mouth_smile
draw_mouth_smile(grid, cx, cy) ==
    LET y == cy + 2
    IN  SetPixels(grid,
            [k \in 1..5 |-> <<y, cx + (k - 3), BLACK>>]
            \o << <<y - 1, cx - 3, BLACK>>, <<y - 1, cx + 3, BLACK>> >>)

\* draw_mouth_frown
draw_mouth_frown(grid, cx, cy) ==
    LET y == cy + 3
    IN  SetPixels(grid,
            [k \in 1..5 |-> <<y, cx + (k - 3), BLACK>>]
            \o << <<y + 1, cx - 3, BLACK>>, <<y + 1, cx + 3, BLACK>> >>)

\* draw_mouth_open: three rows of five in BLACK, then the inner row in RED
draw_mouth_open(grid, cx, cy) ==
    LET y == cy + 2
    IN  SetPixels(grid,
            [k \in 1..15 |-> <<y + ((k - 1) \div 5), cx + (((k - 1) % 5) - 2), BLACK>>]
            \o [k \in 1..3 |-> <<y + 1, cx + (k - 2), RED>>])

\* draw_x_eyes
draw_x_eyes(grid, cx, cy) ==
    LET lx == cx - 5
        rx == cx + 2
        ey == cy - 2
    IN  SetPixels(grid,
            [k \in 1..12 |->
                LET i == (k - 1) \div 4
                IN  <<ey + i,
                      CASE k % 4 = 1 -> lx + i
                        [] k % 4 = 2 -> lx + 2 - i
                        [] k % 4 = 3 -> rx + i
                        [] k % 4 = 0 -> rx + 2 - i,
                      BLACK>>])

\* draw_closed_eyes
draw_closed_eyes(grid, cx, cy) ==
    LET lx == cx - 5
        rx == cx + 2
        ey == cy - 1
    IN  SetPixels(grid,
            [k \in 1..6 |->
                <<ey, (IF k % 2 = 1 THEN lx ELSE rx) + ((k - 1) \div 2), BLACK>>])

\* make_oval: the grid of the oval; dist <= 0.85 is the body, dist <= 1.0 the
\* outline, and a cell not assigned keeps the T of [[T] * w for _ in range(h)].
\* The code compares dist = dx * dx + dy * dy, computed in double precision,
\* with 0.85 and 1.0.  For radii up to 24 and distances below 24 the result
\* is that of the exact quotient, except for the <<radius_x, radius_y,
\* |x - cx|, |y - cy|>> of OVAL_ROUNDED_UP: there the exact dist is 0.85 or
\* 1.0 and the double precision sum lies above it.
make_oval(w, h, cx, cy, radius_x, radius_y, body_color, outline_color) ==
    LET OVAL_ROUNDED_UP ==
            { <<5, 10, 1, 9>>, <<5, 20, 1, 18>>, <<10, 5, 9, 1>>, <<10, 10, 2, 9>>, <<10, 10, 9, 2>>,
              <<10, 15, 9, 3>>, <<10, 20, 2, 18>>, <<10, 20, 9, 4>>, <<13, 13, 5, 12>>,
              <<13, 13, 12, 5>>, <<15, 10, 3, 9>>, <<15, 20, 3, 18>>, <<20, 5, 18, 1>>,
              <<20, 10, 4, 9>>, <<20, 10, 18, 2>>, <<20, 15, 18, 3>>, <<20, 20, 4, 18>>,
              <<20, 20, 18, 4>> }
    IN  [row \in 1..h |-> [col \in 1..w |->
            LET x     == col - 1
                y     == row - 1
                num   == (x - cx) * (x - cx) * radius_y * radius_y
                             + (y - cy) * (y - cy) * radius_x * radius_x
                denom == radius_x * radius_x * radius_y * radius_y
                above == <<Abs(radius_x), Abs(radius_y),
                           Abs(x - cx), Abs(y - cy)>> \in OVAL_ROUNDED_UP
            IN  IF 100 * num < 85 * denom \/ (100 * num = 85 * denom /\ ~above)
                  THEN body_color
                ELSE IF num < denom \/ (num = denom /\ ~above) THEN outline_color
                ELSE T]]

\* flatten: [pixel for row in grid for pixel in row]
flatten(grid) ==
    LET w == Len(grid[1])
    IN  [k \in 1..(Len(grid) * w) |-> grid[((k - 1) \div w) + 1][((k - 1) % w) + 1]]

\* make_egg: the frame for one value of bounce
make_egg ==
    LET EggFrame(bounce) ==
            flatten(SetPixels(make_oval(24, 24, 12, 12, 8, 10, CREAM, LBROWN),
                << <<5 + bounce, 10, BROWN>>, <<6 + bounce, 11, BROWN>>, <<5 + bounce, 12, BROWN>>,
                   <<6 + bounce, 13, BROWN>>, <<5 + bounce, 14, BROWN>>,
                   <<10 + bounce, 8, LBROWN>>, <<14 + bounce, 15, LBROWN>> >>))
    IN  [i \in 1..2 |-> EggFrame(<<0, 1>>[i])]

\* make_baby
make_baby ==
    LET BabyFrame(bounce) ==
            flatten(SetPixels(
                draw_eyes(make_oval(24, 24, 12, 13 - bounce, 7, 7, PINK, DRED), 12, 12 - bounce,
                          BLACK, WHITE),
                << <<15 - bounce, 11, BLACK>>, <<15 - bounce, 12, BLACK>>, <<15 - bounce, 13, BLACK>>,
                   <<14 - bounce, 7, LPINK>>, <<14 - bounce, 16, LPINK>> >>))
    IN  [i \in 1..2 |-> BabyFrame(<<0, 1>>[i])]

\* make_teen
make_teen ==
    LET TeenFrame(bounce) ==
            flatten(SetPixels(
                draw_mouth_smile(
                    draw_eyes(make_oval(24, 24, 12, 13 - bounce, 8, 8, LBLUE, BLUE), 12, 12 - bounce,
                              BLACK, WHITE),
                    12, 12 - bounce),
                << <<4 - bounce, 9, BLUE>>, <<3 - bounce, 9, BLUE>>,
                   <<4 - bounce, 12, BLUE>>, <<3 - bounce, 12, BLUE>>,
                   <<4 - bounce, 15, BLUE>>, <<3 - bounce, 15, BLUE>> >>))
    IN  [i \in 1..2 |-> TeenFrame(<<0, 1>>[i])]

\* make_adult
make_adult ==
    LET AdultFrame(bounce) ==
            flatten(SetPixels(
                draw_mouth_smile(
                    draw_eyes(make_oval(24, 24, 12, 12 - bounce, 9, 9, GREEN, TEAL), 12, 11 - bounce,
                              BLACK, WHITE),
                    12, 11 - bounce),
                << <<2 - bounce, 7, TEAL>>, <<2 - bounce, 16, TEAL>>,
                   <<3 - bounce, 7, GREEN>>, <<3 - bounce, 16, GREEN>> >>))
    IN  [i \in 1..3 |-> AdultFrame(<<0, 1, 0>>[i])]

\* make_elder
make_elder ==
    LET ElderFrame(bounce) ==
            flatten(SetPixels(
                draw_eyes(make_oval(24, 24, 12, 12 - bounce, 9, 9, LPURPLE, PURPLE), 12, 11 - bounce,
                          BLACK, WHITE),
                << <<14 - bounce, 7, PURPLE>>, <<14 - bounce, 8, PURPLE>>,
                   <<14 - bounce, 15, PURPLE>>, <<14 - bounce, 16, PURPLE>>,
                   <<15 - bounce, 11, BLACK>>, <<15 - bounce, 12, BLACK>>, <<15 - bounce, 13, BLACK>> >>))
    IN  [i \in 1..2 |-> ElderFrame(<<0, 1>>[i])]

\* make_ghost.  GHOST_WAVE is int(math.sin(k * 1.2) * 1.5) for k = 4 .. 21, the
\* values of x + phase; GhostBody the grid of T with the body, ((x - 12) / 8)^2
\* + ((y - 10) / 8)^2 <= 1.0 for y in range(4, 18), x in range(4, 20);
\* GhostWavePuts the wavy bottom, for x in range(4, 20): for dy in range(3)
make_ghost ==
    LET GHOST_WAVE == <<-1, 0, 1, 1, 0, -1, 0, 0, 1, 0, -1, -1, 0, 1, 0, -1, -1, 0>>
        Wave(k) == GHOST_WAVE[k - 3]
        GhostBody ==
            [row \in 1..24 |-> [col \in 1..24 |->
                LET x == col - 1
                    y == row - 1
                IN  IF /\ y \in 4..17 /\ x \in 4..19
                       /\ (x - 12) * (x - 12) + (y - 10) * (y - 10) <= 64
                      THEN WHITE ELSE T]]
        GhostWavePuts(phase) ==
            SelectSeq([k \in 1..48 |->
                          LET x  == 4 + ((k - 1) \div 3)
                              dy == (k - 1) % 3
                          IN  <<17 + dy + Wave(x + phase), x,
                                IF dy < 2 THEN WHITE ELSE LGRAY>>],
                      LAMBDA put : 0 <= put[1] /\ put[1] < 24 /\ 4 <= put[2] /\ put[2] < 20)
        GhostFrame(phase) ==
            flatten(SetPixels(GhostBody,
                GhostWavePuts(phase)
                \o [k \in 1..8 |->
                       <<10 + ((k - 1) \div 4),
                         (IF k % 2 = 1 THEN 8 ELSE 13) + (((k - 1) \div 2) % 2),
                         BLACK>>]
                \o << <<14, 11, DGRAY>>, <<14, 12, DGRAY>>,
                      <<15, 11, DGRAY>>, <<15, 12, DGRAY>> >>))
    IN  [i \in 1..3 |-> GhostFrame(<<0, 1, 2>>[i])]

\* make_sick
make_sick ==
    LET SickFrame(bounce) ==
            flatten(SetPixels(
                draw_x_eyes(make_oval(24, 24, 12, 12, 9, 9, rgb565(180, 220, 150), rgb565(100, 150, 80)),
                            12, 12),
                [k \in 1..5 |-> <<16 + (IF (k - 3) % 2 = 0 THEN 1 ELSE 0), 12 + (k - 3), BLACK>>]
                \o (IF bounce = 0
                      THEN << <<5, 18, LBLUE>>, <<6, 18, BLUE>> >>
                      ELSE << <<6, 18, LBLUE>>, <<7, 18, BLUE>> >>)))
    IN  [i \in 1..2 |-> SickFrame(<<0, 1>>[i])]

\* make_happy
make_happy ==
    LET HappyFrame(bounce) ==
            flatten(SetPixels(
                draw_mouth_smile(
                    draw_eyes(make_oval(24, 24, 12, 12 - bounce, 9, 9, YELLOW, ORANGE), 12, 11 - bounce,
                              BLACK, WHITE),
                    12, 11 - bounce),
                << <<14 - bounce, 6, ORANGE>>, <<14 - bounce, 17, ORANGE>> >>
                \o (IF bounce = 0
                      THEN << <<3, 4, WHITE>>, <<3, 19, WHITE>> >>
                      ELSE << <<4, 3, WHITE>>, <<4, 20, WHITE>> >>)))
    IN  [i \in 1..2 |-> HappyFrame(<<0, 1>>[i])]

\* make_sad
make_sad ==
    LET SadFrame(bounce) ==
            flatten(SetPixels(
                draw_mouth_frown(
                    draw_eyes(make_oval(24, 24, 12, 12, 9, 9, LBLUE, BLUE), 12, 11, BLACK, WHITE),
                    12, 11),
                << <<14 + bounce, 7, CYAN>>, <<14 + bounce + 1, 7, BLUE>> >>))
    IN  [i \in 1..2 |-> SadFrame(<<0, 1>>[i])]

\* make_eating
make_eating ==
    LET EatingFrame(phase) ==
            LET g == draw_eyes(make_oval(24, 24, 12, 12, 9, 9, ORANGE, BROWN), 12, 11, BLACK, WHITE)
                m == IF phase = 1
                       THEN SetPixels(g, << <<15, 11, BLACK>>, <<15, 12, BLACK>>, <<15, 13, BLACK>> >>)
                       ELSE draw_mouth_open(g, 12, 11)
            IN  flatten(IF phase = 0
                          THEN SetPixels(m, << <<10, 4, GREEN>>, <<11, 4, GREEN>>, <<10, 5, GREEN>> >>)
                          ELSE m)
    IN  [i \in 1..3 |-> EatingFrame(<<0, 1, 2>>[i])]

\* make_playing
make_playing ==
    LET PlayingFrame(phase) ==
            LET offset == <<0, -2, -1>>[phase + 1]
                y      == 14 - offset
            IN  flatten(SetPixels(
                    draw_eyes(make_oval(24, 24, 12, 12 - offset, 9, 8, CYAN, TEAL), 12, 11 - offset,
                              BLACK, YELLOW),
                    [k \in 1..7 |-> <<y, 12 + (k - 4), BLACK>>]
                    \o << <<y - 1, 12 - 4, BLACK>>, <<y - 1, 12 + 4, BLACK>> >>
                    \o (IF phase = 1
                          THEN << <<6, 3, LGRAY>>, <<7, 2, LGRAY>>, <<6, 20, LGRAY>>, <<7, 21, LGRAY>> >>
                          ELSE << >>)))
    IN  [i \in 1..3 |-> PlayingFrame(<<0, 1, 2>>[i])]

\* make_sleeping
make_sleeping ==
    LET SleepingFrame(phase) ==
            LET zx   == 18 + phase
                zy   == 5 - phase
                sz_x == 16
                sz_y == 3
            IN  flatten(SetPixels(
                    draw_closed_eyes(make_oval(24, 24, 12, 14, 9, 8, LPURPLE, PURPLE), 12, 13),
                    << <<16, 11, BLACK>>, <<16, 12, BLACK>>, <<16, 13, BLACK>> >>
                    \o (IF 0 <= zx /\ zx < 24 /\ 0 <= zy /\ zy < 24
                          THEN << <<zy, zx, WHITE>> >>
                               \o (IF zx + 1 < 24 THEN << <<zy, zx + 1, WHITE>> >> ELSE << >>)
                          ELSE << >>)
                    \o (IF 0 <= zy + 1 /\ zy + 1 < 24 THEN << <<zy + 1, zx, WHITE>> >> ELSE << >>)
                    \o (IF 0 <= sz_y /\ sz_y < 24 /\ 0 <= sz_x /\ sz_x < 24
                          THEN << <<sz_y, sz_x, LGRAY>> >> ELSE << >>)))
    IN  [i \in 1..2 |-> SleepingFrame(<<0, 1>>[i])]

(***************************************************************************)
(* generate_placeholders.py: main.                                         *)
(***************************************************************************)
PLACEHOLDER_ROW == 24       \* range(0, len(data), 24)

PlaceholderPreamble ==
    << <<"/", "*", "*">>,
       <<" ", "*", " ", "@", "f", "i", "l", "e", " ", "S", "p", "r", "i", "t", "e", "D", "a", "t", "a", ".", "h">>,
       <<" ", "*", " ", "@", "b", "r", "i", "e", "f", " ", "P", "l", "a", "c", "e", "h", "o", "l", "d", "e", "r", " ", "2", "4", "x", "2", "4", " ", "R", "G", "B", "5", "6", "5", " ", "s", "p", "r", "i", "t", "e", " ", "d", "a", "t", "a", " ", "f", "o", "r", " ", "T", "a", "m", "a", "T", "a", "c">>,
       <<" ", "*">>,
       <<" ", "*", " ", "A", "u", "t", "o", "-", "g", "e", "n", "e", "r", "a", "t", "e", "d", " ", "b", "y", " ", "g", "e", "n", "e", "r", "a", "t", "e", "_", "p", "l", "a", "c", "e", "h", "o", "l", "d", "e", "r", "s", ".", "p", "y">>,
       <<" ", "*", " ", "R", "e", "p", "l", "a", "c", "e", " ", "w", "i", "t", "h", " ", "r", "e", "a", "l", " ", "p", "i", "x", "e", "l", " ", "a", "r", "t", " ", "v", "i", "a", " ", "s", "p", "r", "i", "t", "e", "2", "c", ".", "p", "y">>,
       <<" ", "*", "/">>,
       <<"#", "p", "r", "a", "g", "m", "a", " ", "o", "n", "c", "e">>,
       << >>,
       <<"#", "i", "n", "c", "l", "u", "d", "e", " ", "\"", "S", "p", "r", "i", "t", "e", "s", ".", "h", "\"">>,
       << >> >>

\* "Frame data arrays": placeholders is a sequence of [name, frames, delay, loop]
RECURSIVE PlaceholderArrayLines(_)
PlaceholderArrayLines(placeholders) ==
    IF Len(placeholders) = 0 THEN << >>
    ELSE FrameArrayLines(placeholders[1].name, placeholders[1].frames, PLACEHOLDER_ROW)
            \o PlaceholderArrayLines(Tail(placeholders))

\* "AnimFrame arrays" and "AnimatedSprites table"
PlaceholderTableLines(placeholders) ==
    [i \in 1..Len(placeholders) |->
        AnimFrameLine(placeholders[i].name, Len(placeholders[i].frames))]
    \o << << >>, TABLE_OPEN >>
    \o [i \in 1..Len(placeholders) |->
          TableRow(placeholders[i].name, Len(placeholders[i].frames),
                   placeholders[i].delay, placeholders[i].loop)]
    \o << <<"}", ";">> >>

\* main: output = "\n".join(lines) + "\n"
placeholder_output(placeholders) ==
    Join(<<"\n">>, PlaceholderPreamble \o PlaceholderArrayLines(placeholders)
                       \o PlaceholderTableLines(placeholders)) \o <<"\n">>


(***************************************************************************)
(* GenSpec: one run of a header generator: sprite2c.py --spritedata,       *)
(* sprite2c.py --batch or generate_placeholders.py.                        *)
(***************************************************************************)
MaxStripW      == 2      \* widest source image
MaxConfigLines == 2      \* lines of sprite_config.txt

\* (delay, loop) of generate_placeholders.py's `sprites`
PLACEHOLDER_ANIM ==
    << <<800, TRUE>>, <<600, TRUE>>, <<500, TRUE>>, <<400, TRUE>>, <<700, TRUE>>, <<500, TRUE>>, <<1000, TRUE>>, <<400, TRUE>>, <<800, TRUE>>, <<300, FALSE>>, <<300, FALSE>>, <<1000, TRUE>> >>

SPRITEDATA_H == <<"S", "p", "r", "i", "t", "e", "D", "a", "t", "a", ".", "h">>

\* Source pixels: opaque white, transparent, opaque red.
GenPixels == << <<255, 255, 255, 255>>, TRANSPARENT_PIXEL, <<255, 60, 60, 255>> >>

\* An image of w pixels in one row.
StripImage(w) == [w |-> w, h |-> 1, px |-> [k \in 1..w |-> GenPixels[((k - 1) % 3) + 1]]]

DirEntry(i, w) == [name |-> SPRITE_NAMES[i], value |-> StripImage(w)]

\* Directories: empty, one or two of the sprites, all of them, or the one
\* file "..png".
GenDirs ==
    {<< >>, <<[name |-> <<".">>, value |-> StripImage(1)]>>}
    \cup { IF i = j THEN <<DirEntry(i, wi)>> ELSE <<DirEntry(j, wj), DirEntry(i, wi)>> :
             i \in 1..Len(SPRITE_NAMES), j \in 1..Len(SPRITE_NAMES),
             wi \in 1..MaxStripW, wj \in 1..MaxStripW }
    \cup { [i \in 1..Len(SPRITE_NAMES) |-> DirEntry(i, w)] : w \in 1..MaxStripW }

\* Lines of sprite_config.txt: well-formed overrides (also of delay 0 and
\* below, of an unknown name, with blanks: U+00A0, form feed, space, U+000B,
\* tab, U+001C), malformed lines, a comment, a blank line.
ConfigLineSamples ==
    << <<"e", "g", "g", "_", "i", "d", "l", "e", ",", "2", "5", "0", ",", "f", "a", "l", "s", "e">>,
       <<"e", "g", "g", "_", "i", "d", "l", "e", ",", "8", "0", "0">>,
       <<"e", "g", "g", "_", "i", "d", "l", "e", ",", "0", ",", "t", "r", "u", "e">>,
       <<"s", "a", "d", ",", "-", "5", ",", "T", "R", "U", "E">>,
       <<"s", "a", "d", ",", "x", ",", "t", "r", "u", "e">>,
       <<"s", "a", "d", ",", "7", ",", "t", "r", "u", "e", ",">>,
       <<" ", "s", "a", "d", "\f", ",", " ", "1", "_", "0", "0", "0", "", ",", "\t", "t", "r", "u", "e", "">>,
       <<"n", "e", "w", ",", "1", "2", ",", "y", "e", "s">>,
       <<"#", " ", "s", "a", "d", ",", "1", ",", "t", "r", "u", "e">>,
       << >> >>

RECURSIVE LineSeqs(_)
LineSeqs(n) ==
    IF n = 0 THEN {<< >>}
    ELSE LineSeqs(n - 1) \cup
         { Append(q, ConfigLineSamples[k]) :
             q \in { x \in LineSeqs(n - 1) : Len(x) = n - 1 },
             k \in 1..Len(ConfigLineSamples) }

ConfigFiles == {None} \cup { <<lines>> : lines \in LineSeqs(MaxConfigLines) }

\* egg_idle.png and sad.png, of one pixel each
ConfigDir == <<DirEntry(1, 1), DirEntry(9, 1)>>

\* The `sprites` of generate_placeholders.py main.
PlaceholderSprites ==
    LET made == <<make_egg, make_baby, make_teen, make_adult, make_elder, make_ghost,
                  make_sick, make_happy, make_sad, make_eating, make_playing, make_sleeping>>
    IN  [i \in 1..Len(SPRITE_NAMES) |->
            [name   |-> SPRITE_NAMES[i],
             frames |-> made[i],
             delay  |-> PLACEHOLDER_ANIM[i][1],
             loop   |-> PLACEHOLDER_ANIM[i][2]]]

GenInit ==
    /\ pc = "start"
    /\ \/ /\ tool = "spritedata"
          /\ \/ frameW \in 1..MaxFrameW /\ spriteDir \in GenDirs /\ configFile = None
             \/ frameW = 1 /\ spriteDir = ConfigDir /\ configFile \in ConfigFiles
          /\ cols = None /\ sprites = None
       \/ /\ tool = "batch"
          /\ frameW \in 1..MaxFrameW /\ spriteDir \in GenDirs /\ configFile = None
          /\ cols \in {None, <<1>>} /\ sprites = None
       \/ /\ tool = "file"
          /\ frameW \in 1..MaxFrameW /\ configFile = None
          /\ spriteDir \in { d \in GenDirs : Len(d) = 1 }
          /\ cols \in {None, <<1>>} /\ sprites = None
       \/ /\ tool = "placeholders"
          /\ frameW = 1 /\ spriteDir = << >> /\ configFile = None /\ cols = None
          /\ sprites = PlaceholderSprites
    /\ frameH = 1
    /\ colorKey = None
    /\ config = None /\ frameCounts = None /\ outLines = None /\ outFiles = << >>
    /\ headerText = None /\ log = << >> /\ cursor = 0
    /\ doc = None /\ parsed = None /\ individual = FALSE /\ files = None
    /\ image = None /\ converted = None /\ frameList = None /\ sheet = None
    /\ reconverted = None
    /\ IdleCodec

\* what no step of a generator changes
genInputs == <<tool, spriteDir, configFile, doc, parsed, sprites, individual, files,
               codecVars, rasterVars>>

\* sprite2c.py main --spritedata: the three lines printed first ("Generating
\* SpriteData.h from", "Frame size:", a blank line); generate_spritedata:
\* anim_config = load_anim_config(sprite_dir) and the first lines
LoadAnimConfig ==
    /\ pc = "start" /\ tool = "spritedata"
    /\ LET loaded == load_anim_config(configFile)
       IN  /\ config' = loaded.config
           /\ log' = <<LogLine("Generating SpriteData.h", << >>, 0),
                       LogLine("Frame size", << >>, 0),
                       LogLine("", << >>, 0)>> \o loaded.log
    /\ outLines' = SpriteDataPreamble(frameW, frameH)
    /\ frameCounts' = << >>
    /\ pc' = "sprites"
    /\ UNCHANGED <<genInputs, headerText, cursor, outFiles>>

\* generate_spritedata: "Process each sprite"
ConvertSprites ==
    /\ pc = "sprites" /\ tool = "spritedata"
    /\ LET pass == ProcessSprites([status |-> "ok", counts |-> frameCounts, lines |-> outLines,
                                   log |-> log, total |-> 0],
                                  1, spriteDir, frameW, frameH, colorKey)
       IN  /\ frameCounts' = pass.counts
           /\ outLines' = pass.lines
           /\ log' = pass.log
           /\ cursor' = pass.total
           /\ pc' = IF pass.status = "ok" THEN "tables" ELSE "exit"
    /\ UNCHANGED <<genInputs, config, headerText, outFiles>>

\* generate_spritedata: "Write AnimFrame arrays", "Write animatedSprites
\* table", the total and return "\n".join(lines)
WriteTables ==
    /\ pc = "tables" /\ tool = "spritedata"
    /\ outLines' = outLines \o TableLines(frameCounts, config)
    /\ headerText' = Join(<<"\n">>, outLines')
    /\ log' = Append(log, LogLine("Total", << >>, cursor))
    /\ pc' = "content"
    /\ UNCHANGED <<genInputs, config, frameCounts, cursor, outFiles>>

\* main: output_path = args.output or "SpriteData.h"; f.write(content)
WriteSpriteData ==
    /\ pc = "content" /\ tool = "spritedata"
    /\ outFiles' = DictSet(outFiles, SPRITEDATA_H, headerText)
    /\ log' = Append(log, LogLine("Output", SPRITEDATA_H, 0))
    /\ pc' = "done"
    /\ UNCHANGED <<genInputs, config, frameCounts, outLines, headerText, cursor>>

\* main --batch: png_files = sorted(...); if not png_files: print, sys.exit(1)
ListPngFiles ==
    /\ pc = "start" /\ tool = "batch"
    /\ IF png_files(spriteDir) = << >>
         THEN /\ log' = Append(log, LogLine("No PNG files found", << >>, 0))
              /\ pc' = "exit"
              /\ cursor' = cursor
         ELSE /\ log' = Append(log, LogLine("Processing", << >>, Len(png_files(spriteDir))))
              /\ pc' = "batch"
              /\ cursor' = 1
    /\ UNCHANGED <<genInputs, config, frameCounts, outLines, headerText, outFiles>>

\* main --batch: one iteration of `for png_file in png_files`.  pc "exit" is
\* the sys.exit(1) of convert_sprite, "error" its IndexError, not caught.
ProcessFile ==
    /\ pc = "batch" /\ tool = "batch"
    /\ LET png_file == png_files(spriteDir)[cursor]
           name     == splitext(png_file)
           made     == process_file(FileImage(spriteDir, png_file), name, frameW, frameH,
                                    colorKey, cols)
       IN  IF made.status = "ok"
             THEN /\ outFiles' = DictSet(outFiles, name \o DOT_H, made.content)
                  /\ log' = log \o <<LogLine("frame(s) from", name, made.count),
                                     LogLine("->", name \o DOT_H, 0)>>
                  /\ cursor' = cursor + 1
                  /\ pc' = IF cursor = Len(png_files(spriteDir)) THEN "done" ELSE "batch"
             ELSE /\ outFiles' = outFiles
                  /\ log' = IF made.status = "exit"
                              THEN Append(log, LogLine("Error: Image is smaller than frame size",
                                                       name, 0))
                              ELSE log
                  /\ cursor' = cursor
                  /\ pc' = IF made.status = "exit" THEN "exit" ELSE "error"
    /\ UNCHANGED <<genInputs, config, frameCounts, outLines, headerText>>

\* generate_placeholders.py main: the first lines and "Frame data arrays"
PlaceholderArrays ==
    /\ pc = "start" /\ tool = "placeholders"
    /\ outLines' = PlaceholderPreamble \o PlaceholderArrayLines(sprites)
    /\ pc' = "tables"
    /\ UNCHANGED <<genInputs, config, frameCounts, headerText, cursor, log, outFiles>>

\* generate_placeholders.py main: "AnimFrame arrays", "AnimatedSprites
\* table", "Write to SpriteData.h" and the two lines printed
\* sum(len(f) for _, f, _, _ in sprites)
RECURSIVE TotalFrames(_)
TotalFrames(placeholders) ==
    IF placeholders = << >> THEN 0
    ELSE Len(placeholders[1].frames) + TotalFrames(Tail(placeholders))

PlaceholderTables ==
    /\ pc = "tables" /\ tool = "placeholders"
    /\ outLines' = outLines \o PlaceholderTableLines(sprites)
    /\ headerText' = Join(<<"\n">>, outLines') \o <<"\n">>
    /\ outFiles' = DictSet(outFiles, SPRITEDATA_H, headerText')
    /\ log' = log \o <<LogLine("Generated", SPRITEDATA_H, 0),
                       LogLine("sprites, total frames", << >>, TotalFrames(sprites))>>
    /\ pc' = "done"
    /\ UNCHANGED <<genInputs, config, frameCounts, cursor>>

\* sprite2c.py main on one file: name = os.path.splitext(os.path.basename(
\* args.input))[0], process_file, the header written to <name>.h
ConvertFile ==
    /\ pc = "start" /\ tool = "file"
    /\ LET png_file == FileName(spriteDir[1].name)
           name     == splitext(png_file)
           made     == process_file(FileImage(spriteDir, png_file), name, frameW, frameH,
                                    colorKey, cols)
       IN  IF made.status = "ok"
             THEN /\ outFiles' = DictSet(outFiles, name \o DOT_H, made.content)
                  /\ log' = log \o <<LogLine("frame(s) from", name, made.count),
                                     LogLine("Output", name \o DOT_H, 0)>>
                  /\ pc' = "done"
             ELSE /\ outFiles' = outFiles
                  /\ log' = IF made.status = "exit"
                              THEN Append(log, LogLine("Error: Image is smaller than frame size",
                                                       name, 0))
                              ELSE log
                  /\ pc' = IF made.status = "exit" THEN "exit" ELSE "error"
    /\ UNCHANGED <<genInputs, config, frameCounts, outLines, headerText, cursor>>


GenNext ==
    \/ LoadAnimConfig \/ ConvertSprites \/ WriteTables \/ WriteSpriteData
    \/ ListPngFiles \/ ProcessFile \/ ConvertFile
    \/ PlaceholderArrays \/ PlaceholderTables

GenSpec == GenInit /\ [][GenNext]_vars


(***************************************************************************)
(* Reading a generated header back, line by line.                          *)
(***************************************************************************)
\* The lines of the animatedSprites table: after its opening line, up to "};".
TableOf(lines) ==
    LET open  == CHOOSE i \in 1..Len(lines) : lines[i] = TABLE_OPEN
        close == CHOOSE i \in (open + 1)..Len(lines) :
                    /\ lines[i] = <<"}", ";">>
                    /\ \A j \in (open + 1)..(i - 1) : lines[j] # <<"}", ";">>
    IN  SubSeq(lines, open + 1, close - 1)

\* One row "{a, b, c, d}, ...": its four fields, blanks stripped.
RowFields(line) ==
    LET inner == Tail(str_split(str_strip(line), "}")[1])
        parts == str_split(inner, ",")
    IN  [i \in 1..Len(parts) |-> str_strip(parts[i])]

IsMissingRow(line) == RowFields(line) = << <<"n", "u", "l", "l", "p", "t", "r">>, <<"0">>, <<"0">>, <<"f", "a", "l", "s", "e">> >>

\* The frames sprite number i has in the source directory.
Produced(i) ==
    IF DictHas(spriteDir, SPRITE_NAMES[i])
      THEN LET img == DictGet(spriteDir, SPRITE_NAMES[i])
           IN  (img.w \div frameW) * (img.h \div frameH)
      ELSE 0

FramesName(name) == <<"f", "r", "a", "m", "e", "s", "_">> \o name

(***************************************************************************)
(* C11: the animatedSprites table written by generate_spritedata has one   *)
(* row per name of SPRITE_NAMES, in that order; row i is the missing       *)
(* placeholder {nullptr, 0, 0, false} exactly when sprite i has no frames, *)
(* and else names frames_<name_i> with the number of frames of sprite i.   *)
(***************************************************************************)
C11_TableAligned ==
    (tool = "spritedata" /\ pc \in {"content", "done"}) =>
        LET rows == TableOf(outLines)
        IN  /\ Len(rows) = Len(SPRITE_NAMES)
            /\ \A i \in 1..Len(SPRITE_NAMES) :
                 /\ IsMissingRow(rows[i]) <=> Produced(i) = 0
                 /\ Produced(i) # 0 =>
                      /\ Len(RowFields(rows[i])) = 4
                      /\ RowFields(rows[i])[1] = FramesName(SPRITE_NAMES[i])
                      /\ int(RowFields(rows[i])[2]) = <<Produced(i)>>
            /\ headerText = Join(<<"\n">>, outLines)
            /\ pc = "done" => DictGet(outFiles, SPRITEDATA_H) = headerText

\* egg_idle.png of two frames and sad.png of one, the other ten missing:
\* row 1 names frames_egg_idle with 2 frames, row 2 is the placeholder.
C11_Witness ==
    /\ tool = "spritedata" /\ pc = "done"
    /\ frameW = 1
    /\ spriteDir = <<DirEntry(9, 1), DirEntry(1, 2)>>
    /\ RowFields(TableOf(outLines)[1])[1] = <<"f", "r", "a", "m", "e", "s", "_", "e", "g", "g", "_", "i", "d", "l", "e">>
    /\ RowFields(TableOf(outLines)[1])[2] = <<"2">>
    /\ IsMissingRow(TableOf(outLines)[2])
    /\ ~IsMissingRow(TableOf(outLines)[9])


\* The image of `name` in the source directory holds at least one frame cell.
Convertible(name) ==
    /\ DictGet(spriteDir, name).w >= frameW
    /\ DictGet(spriteDir, name).h >= frameH

DirNames == { spriteDir[i].name : i \in 1..Len(spriteDir) }

(***************************************************************************)
(* C12: when a run of --batch or --spritedata is over, the output of every *)
(* sprite of the directory whose conversion succeeds has been written,     *)
(* whether or not the conversion of another sprite failed: <name>.h in a   *)
(* batch, SpriteData.h for --spritedata.                                   *)
(***************************************************************************)
C12_AsClaimed ==
    pc \in {"done", "exit", "error"} =>
        /\ tool = "batch" =>
             \A name \in DirNames :
                 Convertible(name) => DictHas(outFiles, splitext(FileName(name)) \o DOT_H)
        /\ tool = "spritedata" =>
             ((\E i \in 1..Len(SPRITE_NAMES) :
                  SPRITE_NAMES[i] \in DirNames /\ Convertible(SPRITE_NAMES[i]))
              => DictHas(outFiles, SPRITEDATA_H))


(***************************************************************************)
(* ConfigSpec: load_anim_config, one step per line of sprite_config.txt.   *)
(***************************************************************************)
ConfigInit ==
    /\ pc = "config"
    /\ tool = "spritedata"
    /\ configFile \in ConfigFiles
    /\ config = DEFAULT_ANIM_CONFIG
    /\ log = << >>
    /\ cursor = 1
    /\ spriteDir = << >> /\ frameCounts = None /\ outLines = None /\ outFiles = None
    /\ doc = None /\ headerText = None /\ parsed = None /\ sprites = None
    /\ individual = FALSE /\ files = None
    /\ colorKey = None
    /\ IdleCodec /\ IdleRaster

\* for line in f: one iteration
ReadConfigLine ==
    /\ pc = "config" /\ configFile # None /\ cursor <= Len(configFile[1])
    /\ LET read == ConfigLine([config |-> config, log |-> log], configFile[1][cursor])
       IN  config' = read.config /\ log' = read.log
    /\ cursor' = cursor + 1
    /\ UNCHANGED <<pc, genInputs, frameCounts, outLines, headerText, outFiles>>

\* return config
ConfigLoaded ==
    /\ pc = "config"
    /\ IF configFile = None THEN TRUE ELSE cursor > Len(configFile[1])
    /\ pc' = "loaded"
    /\ UNCHANGED <<genInputs, config, log, cursor, frameCounts, outLines, headerText, outFiles>>

ConfigNext == ReadConfigLine \/ ConfigLoaded

ConfigSpec == ConfigInit /\ [][ConfigNext]_vars

\* A line that is neither blank nor a comment.
IsEntryLine(raw) == str_strip(raw) # << >> /\ ~startswith(str_strip(raw), <<"#">>)

NameField(raw)  == str_strip(str_split(str_strip(raw), ",")[1])
DelayField(raw) == str_strip(str_split(str_strip(raw), ",")[2])
LoopField(raw)  == str_strip(str_split(str_strip(raw), ",")[3])

\* An entry line without exactly three fields, or whose delay is no integer.
IsMalformedLine(raw) ==
    /\ IsEntryLine(raw)
    /\ \/ Len(str_split(str_strip(raw), ",")) # 3
       \/ int(DelayField(raw)) = None

IsOverrideLine(raw) == IsEntryLine(raw) /\ ~IsMalformedLine(raw)

\* The lines of the file that are well-formed overrides of `name`.
OverridesOf(name) ==
    IF configFile = None THEN {}
    ELSE { k \in 1..Len(configFile[1]) :
             IsOverrideLine(configFile[1][k]) /\ NameField(configFile[1][k]) = name }

ConfigNames ==
    { SPRITE_NAMES[i] : i \in 1..Len(SPRITE_NAMES) }
    \cup (IF configFile = None THEN {}
          ELSE { NameField(configFile[1][k]) :
                   k \in { m \in 1..Len(configFile[1]) : IsOverrideLine(configFile[1][m]) } })

(***************************************************************************)
(* C13: reading a malformed line (not three comma-separated fields, or a   *)
(* delay that is no integer) leaves the whole mapping as it was and prints *)
(* one warning that quotes the line, and reading goes on with the next     *)
(* line; when every line has been read, a name of the default table with   *)
(* no well-formed override has its default value, and a name with          *)
(* well-formed overrides has the value of the last of them.                *)
(***************************************************************************)
C13_MalformedIgnored ==
    /\ [][ (pc = "config" /\ cursor' = cursor + 1 /\ IsMalformedLine(configFile[1][cursor]))
            => /\ config' = config
               /\ Len(log') = Len(log) + 1
               /\ log'[Len(log')].name = str_strip(configFile[1][cursor])
               /\ pc' = "config" ]_vars
    /\ [](pc = "loaded" =>
            /\ configFile # None => cursor = Len(configFile[1]) + 1
            /\ \A name \in ConfigNames :
                 IF OverridesOf(name) = {}
                   THEN DictGet(config, name) = DictGet(DEFAULT_ANIM_CONFIG, name)
                   ELSE LET last == configFile[1][CHOOSE k \in OverridesOf(name) :
                                                    \A m \in OverridesOf(name) : m <= k]
                        IN  DictGet(config, name) =
                              <<int(DelayField(last))[1], str_lower(LoopField(last)) = <<"t", "r", "u", "e">>>>
            /\ Len(config) = Cardinality(ConfigNames))

\* "egg_idle,250,false" then the malformed "egg_idle,800": one warning, and
\* egg_idle keeps the value of the earlier line.
C13_Witness ==
    /\ pc = "loaded"
    /\ configFile = << << <<"e", "g", "g", "_", "i", "d", "l", "e", ",", "2", "5", "0", ",", "f", "a", "l", "s", "e">>, <<"e", "g", "g", "_", "i", "d", "l", "e", ",", "8", "0", "0">> >> >>
    /\ Len(log) = 1
    /\ log[1].name = <<"e", "g", "g", "_", "i", "d", "l", "e", ",", "8", "0", "0">>
    /\ DictGet(config, <<"e", "g", "g", "_", "i", "d", "l", "e">>) = <<250, FALSE>>
    /\ DictGet(config, <<"s", "a", "d">>) = <<800, TRUE>>


(***************************************************************************)
(* LiteralSpec: parse_sprite_arrays and group_frames on a header written   *)
(* by hand, whose integer literals are in any notation of C: 0x with upper *)
(* or lower case digits, 0X, or decimal.                                   *)
(***************************************************************************)
LiteralValues == {10, 255}
Notations == {"0xUPPER", "0xlower", "0XUPPER", "decimal"}

\* One literal: [value, notation]
Literals == [value : LiteralValues, notation : Notations]

LiteralText(lit) ==
    CASE lit.notation = "0xUPPER" -> Hex04(lit.value)
      [] lit.notation = "0xlower" -> <<"0", "x">> \o str_lower(HexStr(lit.value))
      [] lit.notation = "0XUPPER" -> <<"0", "X">> \o HexStr(lit.value)
      [] lit.notation = "decimal" -> DecStr(lit.value)

RECURSIVE LiteralSeqs(_)
LiteralSeqs(n) ==
    IF n = 0 THEN {<< >>}
    ELSE LiteralSeqs(n - 1) \cup
         { Append(q, lit) : q \in { x \in LiteralSeqs(n - 1) : Len(x) = n - 1 },
                            lit \in Literals }

\* The blank after constexpr: a space, in later declarations a form feed.
HandBlank(frame_idx) == IF frame_idx = 0 THEN " " ELSE "\f"

\* constexpr uint16_t sprite_<name>_frame<i>[n] = { literal, ... };
LiteralArray(name, frame_idx, lits) ==
    <<"c", "o", "n", "s", "t", "e", "x", "p", "r", HandBlank(frame_idx), "u", "i", "n", "t", "1", "6", "_", "t", " ">> \o ArrayName(name, frame_idx) \o <<"[">> \o DecStr(Len(lits))
        \o <<"]", " ", "=", " ", "{", " ">> \o Join(<<",", " ">>, [j \in 1..Len(lits) |-> LiteralText(lits[j])])
        \o <<" ", "}", ";">>

LiteralInit ==
    /\ pc = "written"
    /\ \E first \in LiteralSeqs(MaxPixels) \ {<< >>}, second \in {<< >>} \cup { <<lit>> : lit \in Literals } :
         doc = <<[name |-> SAD, frame_idx |-> 0, data |-> first]>>
               \o (IF second = << >> THEN << >>
                   ELSE <<[name |-> SAD, frame_idx |-> 1, data |-> second]>>)
    /\ headerText = Join(<<"\n">>, [i \in 1..Len(doc) |->
                                      LiteralArray(doc[i].name, doc[i].frame_idx, doc[i].data)])
    /\ frameW = 1 /\ frameH = 1
    /\ parsed = None /\ sprites = None
    /\ individual = FALSE /\ cursor = 0 /\ log = None /\ files = None
    /\ colorKey = None
    /\ IdleCodec /\ IdleRaster0 /\ IdleGen

LiteralNext == ParseArrays \/ GroupFrames

LiteralSpec == LiteralInit /\ [][LiteralNext]_vars

\* The values of the literals of a declaration that are written with 0x.
ValuesOf(lits) == [j \in 1..Len(lits) |-> lits[j].value]
HexOnly(lits) ==
    ValuesOf(SelectSeq(lits, LAMBDA lit : lit.notation \in {"0xUPPER", "0xlower"}))

\* C14 as claimed: every array comes back, in the order of the text, with
\* the values of all its literals in order, hexadecimal or decimal.
C14_AsClaimed ==
    pc \in {"parsed", "grouped"} =>
        parsed = [i \in 1..Len(doc) |->
                    [name  |-> ArrayName(doc[i].name, doc[i].frame_idx),
                     value |-> ValuesOf(doc[i].data)]]

(***************************************************************************)
(* C14 amended: every array comes back, in the order of the text, with the *)
(* values of those of its literals that are written in hexadecimal with    *)
(* the prefix 0x (digits of either case), in order; a literal in decimal,  *)
(* or with the prefix 0X, gives no value.                                  *)
(***************************************************************************)
C14_HexLiteralsOnly ==
    pc \in {"parsed", "grouped"} =>
        parsed = [i \in 1..Len(doc) |->
                    [name  |-> ArrayName(doc[i].name, doc[i].frame_idx),
                     value |-> HexOnly(doc[i].data)]]

\* { 255, 0xff } and then { 0x000A }: the decimal 255 is not read.
C14_Witness ==
    /\ pc = "parsed"
    /\ Len(doc) = 2
    /\ doc[1].data = <<[value |-> 255, notation |-> "decimal"],
                       [value |-> 255, notation |-> "0xlower"]>>
    /\ doc[2].data = <<[value |-> 10, notation |-> "0xUPPER"]>>
    /\ parsed = <<[name |-> ArrayName(SAD, 0), value |-> <<255>>],
                  [name |-> ArrayName(SAD, 1), value |-> <<10>>]>>


(***************************************************************************)
(* RangeSpec: the encoders called with a component outside 0..255.         *)
(***************************************************************************)
WideComponents == {-256, -8, -1, 0, 255, 256, 263, 511, 1000}

OutOfRange(px) == \E k \in 1..3 : px[k] < 0 \/ px[k] > 255

RangeInit ==
    /\ pc = "pixel"
    /\ \E r \in WideComponents, g \in WideComponents, b \in WideComponents :
         /\ pixel = <<r, g, b, 255>>
         /\ OutOfRange(pixel)
    /\ colorKey = None
    /\ paletteVal = None /\ storedVal = None /\ shownPixel = None
    /\ IdleRaster /\ IdleText /\ IdleGen

RangeNext == PaletteEntry \/ StorePixel

RangeSpec == RangeInit /\ [][RangeNext]_vars

(***************************************************************************)
(* C15: encoding a colour with a component outside 0..255 gives no value:  *)
(* neither rgb565 nor the encoding in convert_sprite returns one, and so   *)
(* none outside 0..0xFFFF.                                                 *)
(***************************************************************************)
C15_AsClaimed ==
    OutOfRange(pixel) => paletteVal = None /\ storedVal = None


(***************************************************************************)
(* C16: convert_sprite ends with the empty-sheet error, returning no       *)
(* frames, exactly when floor(H/h) is zero or the column count (floor(W/w) *)
(* when columns is omitted) is zero; when it does not, and columns is      *)
(* omitted, it returns at least one frame.                                 *)
(***************************************************************************)
ColumnCount == IF cols = None THEN image.w \div frameW ELSE cols[1]

C16_EmptySheet ==
    pc # "image" =>
        /\ converted.status = "exit" <=> (image.h \div frameH = 0 \/ ColumnCount = 0)
        /\ converted.status = "exit" => converted.frames = << >>
        /\ (cols = None /\ converted.status # "exit") =>
               /\ converted.status = "ok"
               /\ Len(converted.frames) >= 1

\* An image wide enough but lower than one frame, columns omitted: the error.
C16_Witness ==
    /\ pc = "converted"
    /\ cols = None
    /\ image.w >= frameW /\ image.h < frameH
    /\ converted.status = "exit"


(***************************************************************************)
(* Declarations and references of a generated header.                      *)
(***************************************************************************)
UINT16_DECL    == <<"c", "o", "n", "s", "t", "e", "x", "p", "r", " ", "u", "i", "n", "t", "1", "6", "_", "t", " ">>
ANIMFRAME_DECL == <<"c", "o", "n", "s", "t", "e", "x", "p", "r", " ", "A", "n", "i", "m", "F", "r", "a", "m", "e", " ">>
ROW_OPEN       == <<" ", " ", " ", " ", "{">>
NULLPTR        == <<"n", "u", "l", "l", "p", "t", "r">>

\* The identifier a line declares (up to its "["), if it declares one.
Declared(line) ==
    IF startswith(line, UINT16_DECL)
      THEN <<str_split(SubSeq(line, Len(UINT16_DECL) + 1, Len(line)), "[")[1]>>
    ELSE IF startswith(line, ANIMFRAME_DECL)
      THEN <<str_split(SubSeq(line, Len(ANIMFRAME_DECL) + 1, Len(line)), "[")[1]>>
    ELSE None

\* The identifiers a line refers to: the {x} of a frame-sequence declaration
\* in their order, the first field of a table row unless it is nullptr.
Referenced(line) ==
    IF startswith(line, ANIMFRAME_DECL)
      THEN LET parts == str_split(str_split(line, "=")[2], ",")
           IN  [j \in 1..Len(parts) |->
                   SelectSeq(parts[j], LAMBDA ch : ch \notin {" ", "{", "}", ";"})]
    ELSE IF startswith(line, ROW_OPEN) /\ RowFields(line)[1] # NULLPTR
      THEN <<RowFields(line)[1]>>
    ELSE << >>

\* The frames of sprite number i in the run.
Frames(i) == IF tool = "placeholders" THEN Len(sprites[i].frames) ELSE Produced(i)

ArrayPrefix(name) == <<"s", "p", "r", "i", "t", "e", "_">> \o name \o <<"_", "f", "r", "a", "m", "e">>

(***************************************************************************)
(* C17: in the header of generate_spritedata and of the placeholder        *)
(* generator, a sprite with n > 0 frames has exactly the pixel arrays      *)
(* sprite_<name>_frame0 .. frame(n-1), in that order, exactly one          *)
(* frames_<name> declaration referring to exactly those in order, and a    *)
(* table row with frame count n; every identifier referred to is declared  *)
(* on an earlier line; a sprite without frames has no frames_<name>        *)
(* declaration and no reference to it.                                     *)
(***************************************************************************)
C17_HeaderIntegrity ==
    (tool \in {"spritedata", "placeholders"} /\ pc \in {"content", "done"}) =>
        LET decl == [k \in 1..Len(outLines) |-> Declared(outLines[k])]
            refs == [k \in 1..Len(outLines) |-> Referenced(outLines[k])]
            rows == TableOf(outLines)
            text == Join(<<"\n">>, outLines)
        IN  /\ headerText = IF tool = "placeholders" THEN text \o <<"\n">> ELSE text
            /\ Len(rows) = Len(SPRITE_NAMES)
            /\ \A i \in 1..Len(SPRITE_NAMES) :
                 LET name   == SPRITE_NAMES[i]
                     n      == Frames(i)
                     arrays == SelectSeq(decl, LAMBDA d :
                                   d # None /\ startswith(d[1], ArrayPrefix(name)))
                     seqAt  == { k \in 1..Len(outLines) : decl[k] = <<FramesName(name)>> }
                 IN  IF n > 0
                       THEN /\ arrays = [j \in 1..n |-> <<ArrayPrefix(name) \o DecStr(j - 1)>>]
                            /\ Cardinality(seqAt) = 1
                            /\ \A k \in seqAt :
                                 refs[k] = [j \in 1..n |-> ArrayPrefix(name) \o DecStr(j - 1)]
                            /\ RowFields(rows[i])[1] = FramesName(name)
                            /\ int(RowFields(rows[i])[2]) = <<n>>
                       ELSE /\ seqAt = {}
                            /\ \A k \in 1..Len(outLines) : \A j \in 1..Len(refs[k]) :
                                 refs[k][j] # FramesName(name)
            /\ \A k \in 1..Len(outLines) : \A j \in 1..Len(refs[k]) :
                 \E d \in 1..(k - 1) : decl[d] = <<refs[k][j]>>

\* egg_idle.png of two frames, sad.png of one, baby_idle.png missing: one
\* line declares frames_egg_idle over sprite_egg_idle_frame0 and _frame1.
C17_Witness ==
    /\ tool = "spritedata" /\ pc = "done"
    /\ Frames(1) = 2 /\ Frames(2) = 0 /\ Frames(9) = 1
    /\ \E k \in 1..Len(outLines) :
         /\ Declared(outLines[k]) = <<<<"f", "r", "a", "m", "e", "s", "_", "e", "g", "g", "_", "i", "d", "l", "e">>>>
         /\ Referenced(outLines[k]) = <<<<"s", "p", "r", "i", "t", "e", "_", "e", "g", "g", "_", "i", "d", "l", "e", "_", "f", "r", "a", "m", "e", "0">>, <<"s", "p", "r", "i", "t", "e", "_", "e", "g", "g", "_", "i", "d", "l", "e", "_", "f", "r", "a", "m", "e", "1">>>>
    /\ \E k \in 1..Len(outLines) : Referenced(outLines[k]) = <<<<"f", "r", "a", "m", "e", "s", "_", "s", "a", "d">>>>


(***************************************************************************)
(* C18: every row of the animatedSprites table written for a sprite with   *)
(* at least one frame carries a positive integer delay, whatever           *)
(* sprite_config.txt holds (overrides with delay 0 or below included).     *)
(***************************************************************************)
C18_AsClaimed ==
    (tool = "spritedata" /\ pc \in {"content", "done"}) =>
        \A i \in 1..Len(SPRITE_NAMES) :
            Produced(i) > 0 =>
                LET delay == int(RowFields(TableOf(outLines)[i])[3])
                IN  delay # None /\ delay[1] > 0

=============================================================================
